---- MODULE Spec2Model ----
(***************************************************************************)
(* Music-Visualization: the streaming feature pipeline (rolling buffers,   *)
(* chord debouncing, tempo history), the time-windowed SoundCache, the     *)
(* SongStructureAnalyzer and the live "listen for N seconds" loop.         *)
(*                                                                         *)
(* Numbers are integers: samples are amplitudes in units of the silence    *)
(* threshold, times are whole clock ticks.  The signal-processing library  *)
(* (chroma, onset strength) is opaque: its result is a choice over the     *)
(* labels / estimates the code can return.  Python's None is "None".       *)
(***************************************************************************)
EXTENDS Integers, Sequences, FiniteSets, TLC

VARIABLES
  \* ChordDetector (music_analysis/input_detection/chord_detector.py)
  audio_buf, update_count, last_reported, last_candidate, candidate_count,
  \* RhythmDetector (musical_processing/rhythm_detector.py), the value its
  \* last tempo call returned, the onset envelope of that call and every raw
  \* estimate update_bpm has appended to its history
  rhythm_audio_buf, _last_update_t, _bpm_hist, bpm, onset_env, raw_estimates,
  \* observation of the last detector call: the method and its input, the
  \* label recognised (detection ticks only), the value returned, the exception
  \* raised; the last smoothing+1 detection ticks and the last two labels
  \* returned since construction
  call, chord, ret, err, ticks, reports,
  \* SoundCache (music_analysis/cache/sound_cache.py), the wall clock, the value
  \* the last cache operation returned and every entry ever added
  data, now, result, added,
  \* SongStructureAnalyzer (music_analysis/song_structure/...)
  bins, boundaries, labeled,
  \* MusicAnalyzer.analyze_song_structure_live and AudioStream
  queue, pc, block, start_time, produced, dequeued, processed, faulted,
  \* a since() call and an add() call in progress on two threads, and the
  \* deque's mutation counter (CPython's deque.state)
  reader, writer, version

chordVars  == <<audio_buf, update_count, last_reported, last_candidate, candidate_count>>
rhythmVars == <<rhythm_audio_buf, _last_update_t, _bpm_hist, bpm, onset_env, raw_estimates>>
obsVars    == <<call, chord, ret, err, ticks, reports>>
cacheVars  == <<data, result, added>>
structVars == <<bins, boundaries, labeled>>
liveVars   == <<queue, pc, block, start_time, produced, dequeued, processed, faulted>>
threadVars == <<reader, writer, version>>
vars == <<chordVars, rhythmVars, obsVars, cacheVars, now, structVars, liveVars, threadVars>>

(***************************************************************************)
(* Bounds of the model and parameters of the detectors                     *)
(***************************************************************************)
\* ChordDetector.buf_len = round(chord_window_s * sr), in samples
buf_len == 3
\* RhythmDetector.window_len = round(window_s * sr), in samples
window_len == 4
\* longest block handed to a detector
MaxBlock == 4
\* ChordDetector.every_n_updates
every_n_updates == 2
\* ChordDetector.smoothing
smoothing == 2
\* ChordDetector.silence_thresh, the unit of the sample amplitudes
silence_thresh == 1
\* detection ticks per detector life
MaxTicks == 7
\* process_block calls per detector life where blocks of every length are fed
MaxPushes == 3

Samples == {0, 1}
\* the labels _get_match can return (a sample of chord_names) and "silence"
chord_names == {"C", "G"}
Labels == chord_names \cup {"silence"}

Max(a, b) == IF a >= b THEN a ELSE b
Min(a, b) == IF a <= b THEN a ELSE b
Abs(a) == IF a < 0 THEN -a ELSE a

\* sum of a sequence of integers
RECURSIVE SumInts(_)
SumInts(xs) == IF xs = <<>> THEN 0 ELSE Head(xs) + SumInts(Tail(xs))

RECURSIVE SeqsUpTo(_, _)
\* all sequences over S of length 0..n
SeqsUpTo(S, n) ==
  IF n = 0 THEN {<<>>}
  ELSE LET shorter == SeqsUpTo(S, n - 1)
       IN  shorter \cup {Append(s, e) : s \in {t \in shorter : Len(t) = n - 1}, e \in S}

Blocks == SeqsUpTo(Samples, MaxBlock)
\* the blocks fed where debouncing is studied: one quiet or loud sample, or a
\* quiet block as long as the chord buffer
DetectBlocks == {<<0>>, <<1>>, <<-1>>, [i \in 1..buf_len |-> 0]}

\* the last k elements of seq
LastK(seq, k) == SubSeq(seq, Max(1, Len(seq) - k + 1), Len(seq))

(***************************************************************************)
(* Rolling buffer: the numpy slice assignments of process_block/push_audio *)
(***************************************************************************)
\* Python's a[lo:hi] on a sequence of length N, 0-based lo, exclusive hi
PySlice(a, lo, hi) == SubSeq(a, lo + 1, hi)

\* the index a negative-or-zero bound -n denotes in a slice of a length-N
\* array: -0 is 0, -n is N-n clipped at 0
NegIndex(n, N) == IF n = 0 THEN 0 ELSE Max(N - n, 0)

\* numpy accepts dst[...] = src when the shapes agree or src has one element
Broadcastable(srcLen, dstLen) == srcLen = dstLen \/ srcLen = 1

\* dst[lo:hi] = src, for a broadcastable src
AssignSlice(dst, lo, hi, src) ==
  [i \in 1..Len(dst) |->
     IF i > lo /\ i <= hi
     THEN (IF Len(src) = 1 THEN src[1] ELSE src[i - lo])
     ELSE dst[i]]

\* RollingPush keeping the head of a long block, x[:N], instead of its tail
RollingPushKeepsHead(buf, x) ==
  LET N == Len(buf)
      n == Len(x)
  IN  IF n >= N
      THEN [err |-> "none", buf |-> PySlice(x, 0, N)]
      ELSE IF n = 0 THEN [err |-> "ValueError", buf |-> buf]
      ELSE [err |-> "none", buf |-> PySlice(buf, n, N) \o x]

\* The buffer update shared by ChordDetector.process_block and
\* RhythmDetector.push_audio; [err, buf]: the exception raised and the buffer
\* left behind.
RollingPush(buf, x) ==
  LET N == Len(buf)
      n == Len(x)
  IN  IF n >= N
      THEN [err |-> "none", buf |-> PySlice(x, n - N, n)]          \* buf[:] = x[-N:]
      ELSE LET stop  == NegIndex(n, N)                              \* buf[:-n]
               src1  == PySlice(buf, n, N)                          \* buf[n:]
               start == NegIndex(n, N)                              \* buf[-n:]
           IN  IF ~Broadcastable(Len(src1), stop)
               THEN [err |-> "ValueError", buf |-> buf]
               ELSE LET b1 == AssignSlice(buf, 0, stop, src1)
                    IN  IF ~Broadcastable(n, N - start)
                        THEN [err |-> "ValueError", buf |-> b1]
                        ELSE [err |-> "none", buf |-> AssignSlice(b1, start, N, x)]

RECURSIVE Peak(_)
\* np.max(np.abs(y))
Peak(y) == IF y = <<>> THEN 0 ELSE Max(Abs(Head(y)), Peak(Tail(y)))

\* _recognize_chord without its silence test
RecognizeWithoutSilence(y) == chord_names

\* ChordDetector._recognize_chord: the labels it can return for buffer y
_recognize_chord(y) ==
  IF Peak(y) < silence_thresh THEN {"silence"} ELSE chord_names

(***************************************************************************)
(* ChordDetector                                                           *)
(***************************************************************************)
InitChord ==
  /\ audio_buf = [i \in 1..buf_len |-> 0]
  /\ update_count = 0
  /\ last_reported = "None"
  /\ last_candidate = "None"
  /\ candidate_count = 0

InitObs ==
  /\ call = [op |-> "init", x |-> <<>>]
  /\ chord = "None"
  /\ ret = "None"
  /\ err = "none"
  /\ ticks = <<>>
  /\ reports = <<>>

\* CandidateUpdate restarting the count of a new candidate at 0
CandidateUpdateFromZero(c, cand, count) ==
  IF c = cand THEN [cand |-> cand, count |-> count + 1]
              ELSE [cand |-> c, count |-> 0]

\* process_block, the candidate step: [cand, count] after recognising c
CandidateUpdate(c, cand, count) ==
  IF c = cand THEN [cand |-> cand, count |-> count + 1]
              ELSE [cand |-> c, count |-> 1]

\* ShouldReport without the comparison with last_reported
ShouldReportRepeats(count, c, reported) == count >= smoothing

\* process_block, the report condition
ShouldReport(count, c, reported) == count >= smoothing /\ c # reported

\* recognition on every call
IsDetectionTickAlways(count) == TRUE

\* process_block, the rate limit: whether call number count runs recognition
IsDetectionTick(count) == count % every_n_updates = 0

\* ChordDetector.process_block(x)
ProcessBlock(x) ==
  LET r == RollingPush(audio_buf, x) IN
  /\ call' = [op |-> "process_block", x |-> x]
  /\ audio_buf' = r.buf
  /\ err' = r.err
  /\ IF r.err # "none"
     THEN /\ ret' = "None"
          /\ chord' = "None"
          /\ UNCHANGED <<update_count, last_reported, last_candidate, candidate_count,
                         ticks, reports>>
     ELSE /\ update_count' = update_count + 1
          /\ IF ~IsDetectionTick(update_count')
             THEN /\ ret' = "None"
                  /\ chord' = "None"
                  /\ UNCHANGED <<last_reported, last_candidate, candidate_count,
                                 ticks, reports>>
             ELSE \E c \in _recognize_chord(audio_buf') :
                    LET u == CandidateUpdate(c, last_candidate, candidate_count)
                        report == ShouldReport(u.count, c, last_reported)
                    IN  /\ chord' = c
                        /\ last_candidate' = u.cand
                        /\ candidate_count' = u.count
                        /\ last_reported' = IF report THEN c ELSE last_reported
                        /\ ret' = IF report THEN c ELSE "None"
                        /\ ticks' = LastK(Append(ticks, [chord |-> c, ret |-> ret',
                                                         reported |-> last_reported,
                                                         candidate |-> last_candidate]),
                                          smoothing + 1)
                        /\ reports' = IF report THEN LastK(Append(reports, c), 2)
                                      ELSE reports

\* ChordDetector.reset()
Reset ==
  /\ update_count > 0
  /\ audio_buf' = [i \in 1..buf_len |-> 0]
  /\ update_count' = 0
  /\ last_reported' = "None"
  /\ last_candidate' = "None"
  /\ candidate_count' = 0
  /\ call' = [op |-> "reset", x |-> <<>>]
  /\ chord' = "None"
  /\ ret' = "None"
  /\ err' = "none"
  /\ ticks' = <<>>
  /\ reports' = <<>>

(***************************************************************************)
(* RhythmDetector                                                          *)
(***************************************************************************)
\* update_bpm's result: an estimate, or None
NoEstimate == [ok |-> FALSE, bpm |-> 0]
Estimate(v) == [ok |-> TRUE, bpm |-> v]

\* RhythmDetector.update_s, in clock ticks, and smooth_n
update_s == 1
smooth_n == 5

InitRhythm ==
  /\ rhythm_audio_buf = [i \in 1..window_len |-> 0]
  /\ _last_update_t = 0
  /\ _bpm_hist = <<>>
  /\ bpm = NoEstimate
  /\ onset_env = <<>>
  /\ raw_estimates = <<>>

\* RhythmDetector.push_audio(x)
PushAudio(x) ==
  LET r == RollingPush(rhythm_audio_buf, x) IN
  /\ rhythm_audio_buf' = r.buf
  /\ err' = r.err
  /\ call' = [op |-> "push_audio", x |-> x]
  /\ UNCHANGED <<_last_update_t, _bpm_hist, bpm, onset_env, raw_estimates, ret, chord, ticks, reports>>

RECURSIVE InsertAsc(_, _)
InsertAsc(sorted, v) ==
  IF sorted = <<>> THEN <<v>>
  ELSE IF Head(sorted) <= v THEN <<Head(sorted)>> \o InsertAsc(Tail(sorted), v)
       ELSE <<v>> \o sorted

RECURSIVE SortedAsc(_)
SortedAsc(xs) == IF xs = <<>> THEN <<>> ELSE InsertAsc(SortedAsc(Tail(xs)), Head(xs))

\* np.median of a non-empty list of even integers
Median(xs) ==
  LET srt == SortedAsc(xs)
      n == Len(xs)
  IN  IF n % 2 = 1 THEN srt[(n + 1) \div 2]
      ELSE (srt[n \div 2] + srt[n \div 2 + 1]) \div 2

\* RhythmDetector.sr and hop_length, scaled: frame_rate is fps = sr / hop_length
sr == 6
hop_length == 1
frame_rate == sr \div hop_length
\* RhythmDetector.bpm_min and bpm_max
bpm_min == 60
bpm_max == 120
\* the frame counts of an onset envelope (none, below 4, 4 and above) and the
\* levels of a frame
FrameCounts == {0, 3, 4, 5}
EnvLevels == {0, 1}
\* the envelopes _onset_envelope (librosa's onset strength, then normalised to
\* minimum 0) yields in the model: silence, four frames, a beat every 3 frames
OnsetEnvelopes == {<<0, 0, 0, 0, 0>>, <<0, 1, 0, 1>>, <<0, 1, 0, 0, 1>>}
\* the envelopes _tempo_from_autocorr is called on directly
Envelopes == UNION {[1..n -> EnvLevels] : n \in FrameCounts}

\* x = onset_env - np.mean(onset_env), times len(onset_env)
RemoveDC(env) ==
  LET total == SumInts(env)
      len == Len(env)
  IN  [i \in 1..len |-> len * env[i] - total]

RECURSIVE Dot(_, _, _)
\* the sum of x[j] * x[j + k] from j = i on
Dot(x, k, i) == IF i + k > Len(x) THEN 0 ELSE x[i] * x[i + k] + Dot(x, k, i + 1)

\* np.correlate(x, x, mode="full")[len(x)-1:], ac[k] at index k + 1
Autocorr(x) == [k1 \in 1..Len(x) |-> Dot(x, k1 - 1, 1)]

\* lag_min and lag_max, in frames, for an autocorrelation of n lags
LagMin == Max((60 * frame_rate) \div bpm_max, 1)
LagMax(n) == Min((60 * frame_rate + bpm_min - 1) \div bpm_min, n - 1)

RECURSIVE ArgMax(_, _, _)
\* np.argmax of ac[lo..hi] (0-based lags): the first lag of the greatest value
ArgMax(ac, lo, hi) ==
  IF lo >= hi THEN lo
  ELSE LET rest == ArgMax(ac, lo + 1, hi)
       IN  IF ac[lo + 1] >= ac[rest + 1] THEN lo ELSE rest

\* _tempo_from_autocorr without the test of the zero-lag autocorrelation
TempoWithoutZeroLagTest(env) ==
  IF Len(env) < 4 \/ \A i \in 1..Len(env) : env[i] = 0 THEN NoEstimate
  ELSE LET ac == Autocorr(RemoveDC(env))
           lag_min == LagMin
           lag_max == LagMax(Len(ac))
       IN  IF lag_max <= lag_min THEN NoEstimate
           ELSE Estimate((60 * frame_rate) \div ArgMax(ac, lag_min, lag_max))

\* RhythmDetector._tempo_from_autocorr(onset_env)
_tempo_from_autocorr(env) ==
  IF Len(env) < 4 \/ \A i \in 1..Len(env) : env[i] = 0 THEN NoEstimate
  ELSE LET ac == Autocorr(RemoveDC(env))
           lag_min == LagMin
           lag_max == LagMax(Len(ac))
       IN  IF ac[1] <= 0 THEN NoEstimate
           ELSE IF lag_max <= lag_min THEN NoEstimate
           ELSE Estimate((60 * frame_rate) \div ArgMax(ac, lag_min, lag_max))

\* a direct call of _tempo_from_autocorr(env)
TempoFromAutocorr(env) ==
  /\ onset_env' = env
  /\ bpm' = _tempo_from_autocorr(env)
  /\ UNCHANGED <<rhythm_audio_buf, _last_update_t, _bpm_hist, raw_estimates>>

\* the history without the removal of its oldest value
HistoryAppendAll(hist, v) == Append(hist, v)

\* the history after appending a raw estimate
HistoryAppend(hist, v) ==
  LET h == Append(hist, v) IN IF Len(h) > smooth_n THEN Tail(h) ELSE h

\* update_bpm never inside the update_s interval, whatever the clock says
RateLimitedNever(t, last) == FALSE

\* update_bpm: (now - self._last_update_t) < self.update_s
RateLimited(t, last) == t - last < update_s

\* RhythmDetector.update_bpm(), _onset_envelope yielding one of envs
UpdateBpmOn(envs) ==
  /\ IF RateLimited(now, _last_update_t)
     THEN /\ bpm' = NoEstimate
          /\ UNCHANGED <<_last_update_t, _bpm_hist, onset_env, raw_estimates>>
     ELSE /\ _last_update_t' = now
          /\ \E env \in envs :
               /\ onset_env' = env
               /\ LET est == _tempo_from_autocorr(env) IN
                    IF ~est.ok
                    THEN bpm' = NoEstimate /\ UNCHANGED <<_bpm_hist, raw_estimates>>
                    ELSE /\ _bpm_hist' = HistoryAppend(_bpm_hist, est.bpm)
                         /\ raw_estimates' = Append(raw_estimates, est.bpm)
                         /\ bpm' = Estimate(Median(_bpm_hist'))
  /\ UNCHANGED rhythm_audio_buf

\* RhythmDetector.update_bpm()
UpdateBpm == UpdateBpmOn(OnsetEnvelopes)

\* update_bpm calls in a row, one per update_s, and the envelopes they see:
\* silence, a beat every 3 frames (120) and a beat every 4 frames (90)
MaxUpdates == 6
TempoEnvelopes == {<<0, 0, 0, 0, 0>>, <<0, 1, 0, 0, 1>>, <<1, 0, 0, 0, 1>>}

(***************************************************************************)
(* SoundCache                                                              *)
(***************************************************************************)
\* SoundCache.window_seconds, in clock ticks
window_seconds == 3
\* the wall clock at construction, and how long the model runs it
StartTime == 10
Horizon == 4
\* entries added to the cache in one run
MaxEntries == 2
\* arguments of top_freqencies(n) and last_n(n)
MaxN == 2

Frequencies == {0, 1}

InitCache ==
  /\ data = <<>>
  /\ added = <<>>
  /\ result = [op |-> "init", kind |-> "none", val |-> <<>>, arg |-> 0, at |-> StartTime]

\* the wall clock, time.time(), advances
Tick ==
  /\ now < StartTime + Horizon
  /\ now' = now + 1

\* _prune popping at most one expired head (if for while)
PruneOnce(d, t) ==
  IF d # <<>> /\ Head(d).timestamp < t - window_seconds THEN Tail(d) ELSE d

RECURSIVE _prune(_, _)
\* SoundCache._prune(now): the deque after popping expired heads
_prune(d, t) ==
  IF d # <<>> /\ Head(d).timestamp < t - window_seconds
  THEN _prune(Tail(d), t)
  ELSE d

\* AddEntry putting the new entry at the head of the deque
AddEntryAtHead(d, c, f, b, t) ==
  _prune(<<[chord |-> c, frequency |-> f, bpm |-> b, timestamp |-> t]>> \o d, t)

\* the deque after SoundCache.add at time t
AddEntry(d, c, f, b, t) ==
  _prune(Append(d, [chord |-> c, frequency |-> f, bpm |-> b, timestamp |-> t]), t)

\* SoundCache.add(chord, frequency, bpm)
Add(c, f, b) ==
  /\ data' = AddEntry(data, c, f, b, now)
  /\ added' = Append(added, [chord |-> c, frequency |-> f, bpm |-> b, timestamp |-> now])
  /\ result' = [op |-> "add", kind |-> "none", val |-> <<>>, arg |-> 0, at |-> now]

\* SoundCache.chord_count(chord)
ChordCount(c) ==
  /\ data' = _prune(data, now)
  /\ UNCHANGED added
  /\ result' = [op |-> "chord_count", kind |-> "int",
                val |-> Cardinality({i \in 1..Len(data') : data'[i].chord = c}),
                arg |-> c, at |-> now]

RECURSIVE FirstMax(_, _)
\* max(seq, key=frequency) of a non-empty sequence: the first maximal element,
\* best being the maximum so far
FirstMax(d, best) ==
  IF d = <<>> THEN best
  ELSE FirstMax(Tail(d), IF Head(d).frequency > best.frequency THEN Head(d) ELSE best)

\* SoundCache.max_frequency()
MaxFrequency ==
  /\ data' = _prune(data, now)
  /\ UNCHANGED added
  /\ result' = IF data' = <<>>
               THEN [op |-> "max_frequency", kind |-> "none", val |-> <<>>, arg |-> 0, at |-> now]
               ELSE [op |-> "max_frequency", kind |-> "entry",
                     val |-> FirstMax(Tail(data'), Head(data')), arg |-> 0, at |-> now]

RECURSIVE InsertDescBeforeEquals(_, _)
\* InsertDesc placing e before its equals
InsertDescBeforeEquals(sorted, e) ==
  IF sorted = <<>> THEN <<e>>
  ELSE IF Head(sorted).frequency > e.frequency
       THEN <<Head(sorted)>> \o InsertDescBeforeEquals(Tail(sorted), e)
       ELSE <<e>> \o sorted

RECURSIVE InsertDesc(_, _)
\* e inserted into a frequency-descending list after its equals (stable)
InsertDesc(sorted, e) ==
  IF sorted = <<>> THEN <<e>>
  ELSE IF Head(sorted).frequency >= e.frequency
       THEN <<Head(sorted)>> \o InsertDesc(Tail(sorted), e)
       ELSE <<e>> \o sorted

RECURSIVE SortedDesc(_)
\* sorted(d, key=frequency, reverse=True): stable, descending
SortedDesc(d) ==
  IF d = <<>> THEN <<>>
  ELSE InsertDesc(SortedDesc(SubSeq(d, 1, Len(d) - 1)), d[Len(d)])

\* SoundCache.top_freqencies(n), n >= 0
TopFreqencies(n) ==
  /\ data' = _prune(data, now)
  /\ UNCHANGED added
  /\ result' = [op |-> "top_freqencies", kind |-> "list",
                val |-> PySlice(SortedDesc(data'), 0, Min(n, Len(data'))),
                arg |-> n, at |-> now]

\* SinceResult returning the whole window, whatever seconds is
SinceResultNoCutoff(d, seconds, t) ==
  IF seconds >= window_seconds
  THEN [kind |-> "none", val |-> <<>>]
  ELSE [kind |-> "list", val |-> d]

\* SinceResult refusing only seconds > window_seconds
SinceResultStrict(d, seconds, t) ==
  IF seconds > window_seconds
  THEN [kind |-> "none", val |-> <<>>]
  ELSE [kind |-> "list", val |-> SelectSeq(d, LAMBDA e : e.timestamp >= t - seconds)]

\* the value SoundCache.since(seconds) returns on the pruned deque d at time t
SinceResult(d, seconds, t) ==
  IF seconds >= window_seconds
  THEN [kind |-> "none", val |-> <<>>]
  ELSE [kind |-> "list", val |-> SelectSeq(d, LAMBDA e : e.timestamp >= t - seconds)]

\* SoundCache.since(seconds)
Since(seconds) ==
  /\ data' = _prune(data, now)
  /\ UNCHANGED added
  /\ LET r == SinceResult(data', seconds, now)
     IN  result' = [op |-> "since", kind |-> r.kind, val |-> r.val,
                    arg |-> seconds, at |-> now]

\* SoundCache.last_n(n), n >= 0
LastN(n) ==
  /\ data' = _prune(data, now)
  /\ UNCHANGED added
  /\ result' = [op |-> "last_n", kind |-> "list",
                val |-> PySlice(data', NegIndex(n, Len(data')), Len(data')),
                arg |-> n, at |-> now]

CacheOp ==
  \/ \E c \in chord_names, f \in Frequencies : Len(added) < MaxEntries /\ Add(c, f, 0)
  \/ \E c \in chord_names : ChordCount(c)
  \/ MaxFrequency
  \/ \E n \in 0..MaxN : TopFreqencies(n)
  \/ \E s \in 0..(window_seconds + 1) : Since(s)
  \/ \E n \in 0..MaxN : LastN(n)

(***************************************************************************)
(* Exact fractions <<numerator, denominator>>, denominator > 0, for the    *)
(* analyzer's float arithmetic                                             *)
(***************************************************************************)
RECURSIVE GCD(_, _)
GCD(a, b) == IF b = 0 THEN a ELSE GCD(b, a % b)
LCM(a, b) == (a * b) \div GCD(a, b)

Frac(n, d) ==
  LET g == GCD(Abs(n), d) IN IF n = 0 THEN <<0, 1>> ELSE <<n \div g, d \div g>>
FAdd(p, q) == Frac(p[1] * q[2] + q[1] * p[2], p[2] * q[2])
FSub(p, q) == Frac(p[1] * q[2] - q[1] * p[2], p[2] * q[2])
FMul(p, q) == Frac(p[1] * q[1], p[2] * q[2])
FAbs(p) == <<Abs(p[1]), p[2]>>
FInt(n) == <<n, 1>>

RECURSIVE FSum(_)
FSum(fs) == IF fs = <<>> THEN <<0, 1>> ELSE FAdd(Head(fs), FSum(Tail(fs)))


(***************************************************************************)
(* SongStructureAnalyzer                                                   *)
(***************************************************************************)
\* SongStructureAnalyzer.bin_seconds
bin_seconds == 2
\* bins and segments handed to the analyzer
MaxBins == 10
MaxSegments == 4

InitStruct ==
  /\ bins = <<>>
  /\ boundaries = <<>>
  /\ labeled = <<>>

RECURSIVE CountOf(_, _)
\* occurrences of k in seq
CountOf(seq, k) ==
  IF seq = <<>> THEN 0
  ELSE (IF Head(seq) = k THEN 1 ELSE 0) + CountOf(Tail(seq), k)

RECURSIVE Distinct(_, _)
\* the elements of seq not in seen, each once, in order of first occurrence
Distinct(seq, seen) ==
  IF seq = <<>> THEN <<>>
  ELSE IF Head(seq) \in seen THEN Distinct(Tail(seq), seen)
       ELSE <<Head(seq)>> \o Distinct(Tail(seq), seen \cup {Head(seq)})

\* Counter(seq): its items [key, count] in insertion order
Counter(seq) ==
  LET keys == Distinct(seq, {})
  IN  [i \in 1..Len(keys) |-> [key |-> keys[i], count |-> CountOf(seq, keys[i])]]

RECURSIVE InsertByCount(_, _)
InsertByCount(sorted, it) ==
  IF sorted = <<>> THEN <<it>>
  ELSE IF Head(sorted).count >= it.count
       THEN <<Head(sorted)>> \o InsertByCount(Tail(sorted), it)
       ELSE <<it>> \o sorted

RECURSIVE most_common(_)
\* Counter.most_common(): by count, descending, equal counts in insertion order
most_common(items) ==
  IF items = <<>> THEN <<>>
  ELSE InsertByCount(most_common(SubSeq(items, 1, Len(items) - 1)), items[Len(items)])

RECURSIVE Changes(_, _)
\* the chord changes counted by the loop of _features_for_bin; last is "None"
\* before the first chord
Changes(chords, last) ==
  IF chords = <<>> THEN 0
  ELSE (IF last # "None" /\ Head(chords) # last THEN 1 ELSE 0)
       + Changes(Tail(chords), Head(chords))

\* SongStructureAnalyzer._features_for_bin
_features_for_bin(bin_entries) ==
  LET chordEntries == SelectSeq(bin_entries, LAMBDA e : e.chord # "" /\ e.chord # "none")
      chords == [i \in 1..Len(chordEntries) |-> chordEntries[i].chord]
      bpmEntries == SelectSeq(bin_entries, LAMBDA e : e.bpm # 0 /\ e.bpm > 0)
      bpms == [i \in 1..Len(bpmEntries) |-> bpmEntries[i].bpm]
      chord_counts == Counter(chords)
      bpm_mean == IF bpms # <<>> THEN Frac(SumInts(bpms), Len(bpms)) ELSE <<0, 1>>
      sq == [i \in 1..Len(bpms) |->
               FMul(FSub(FInt(bpms[i]), bpm_mean), FSub(FInt(bpms[i]), bpm_mean))]
  IN  [dominant_chord |-> IF chord_counts # <<>> THEN most_common(chord_counts)[1].key
                          ELSE "none",
       chord_hist  |-> chord_counts,
       change_rate |-> IF chords # <<>>
                       THEN Frac(Changes(chords, "None"), Max(1, Len(chords) - 1))
                       ELSE <<0, 1>>,
       bpm_mean    |-> bpm_mean,
       bpm_var     |-> IF bpms # <<>> THEN FMul(FSum(sq), <<1, Len(bpms)>>) ELSE <<0, 1>>]

\* jaccard(a, b) of _boundaries, on the key sets of two Counters
jaccard(a, b) ==
  LET sa == {a[i].key : i \in 1..Len(a)}
      sb == {b[i].key : i \in 1..Len(b)}
  IN  IF sa = {} /\ sb = {} THEN <<0, 1>>
      ELSE FSub(<<1, 1>>, Frac(Cardinality(sa \cap sb), Cardinality(sa \cup sb)))

\* the default weights of _boundaries
chord_weight == <<1, 1>>
bpm_weight == <<3, 10>>
rate_weight == <<1, 2>>

\* diffs of _boundaries: diffs[i + 1] is the code's diffs[i]
Diffs(features) ==
  [i \in 1..Max(1, Len(features)) |->
     IF i = 1 THEN <<0, 1>>
     ELSE LET d_chord == jaccard(features[i - 1].chord_hist, features[i].chord_hist)
              d_bpm == FMul(FAbs(FSub(features[i - 1].bpm_mean, features[i].bpm_mean)),
                            <<1, 200>>)
              d_rate == FAbs(FSub(features[i - 1].change_rate, features[i].change_rate))
          IN  FAdd(FMul(chord_weight, d_chord),
                   FAdd(FMul(bpm_weight, d_bpm), FMul(rate_weight, d_rate)))]

RECURSIVE CommonDen(_)
CommonDen(fs) == IF fs = <<>> THEN 1 ELSE LCM(Head(fs)[2], CommonDen(Tail(fs)))

\* AtThreshold with a strict comparison, d > mean + std
AboveThreshold(diffs, i) ==
  LET q == CommonDen(diffs)
      D == [j \in 1..Len(diffs) |-> diffs[j][1] * (q \div diffs[j][2])]
      n == Len(diffs)
      s == SumInts(D)
      s2 == SumInts([j \in 1..n |-> D[j] * D[j]])
      dev == n * D[i] - s
  IN  dev > 0 /\ dev * dev > n * s2 - s * s

\* d >= mean(diffs) + population std(diffs), exactly: with D the diffs scaled to
\* integers, n*D[i] - sum(D) >= 0 and its square >= n*sum(D^2) - sum(D)^2
AtThreshold(diffs, i) ==
  LET q == CommonDen(diffs)
      D == [j \in 1..Len(diffs) |-> diffs[j][1] * (q \div diffs[j][2])]
      n == Len(diffs)
      s == SumInts(D)
      s2 == SumInts([j \in 1..n |-> D[j] * D[j]])
      dev == n * D[i] - s
  IN  dev >= 0 /\ dev * dev >= n * s2 - s * s

\* _boundaries without boundaries.append(len(features))
BoundariesWithoutEnd(features) ==
  LET diffs == Diffs(features)
      peaks == {i \in 0..(Len(diffs) - 1) : i # 0 /\ AtThreshold(diffs, i + 1)}
      bset == {0} \cup peaks
  IN  [k \in 1..Cardinality(bset) |->
         CHOOSE b \in bset : Cardinality({c \in bset : c < b}) = k - 1]

\* SongStructureAnalyzer._boundaries: the sorted boundary list, 0-based
_boundaries(features) ==
  LET diffs == Diffs(features)
      peaks == {i \in 0..(Len(diffs) - 1) : i # 0 /\ AtThreshold(diffs, i + 1)}
      bset == {0} \cup peaks \cup {Len(features)}
  IN  [k \in 1..Cardinality(bset) |->
         CHOOSE b \in bset : Cardinality({c \in bset : c < b}) = k - 1]

RECURSIVE collapse(_, _)
\* collapse(seq) of _label_sections; last is "None" before the first element
collapse(seq, last) ==
  IF seq = <<>> THEN <<>>
  ELSE (IF Head(seq) # last /\ Head(seq) # "none" THEN <<Head(seq)>> ELSE <<>>)
       \o collapse(Tail(seq), Head(seq))

RECURSIVE FirstChorusAnyLength(_)
\* FirstChorus without the length test
FirstChorusAnyLength(items) ==
  IF items = <<>> THEN [found |-> FALSE, fp |-> <<>>]
  ELSE IF Head(items).count >= 2
       THEN [found |-> TRUE, fp |-> Head(items).key]
       ELSE FirstChorusAnyLength(Tail(items))

RECURSIVE FirstChorus(_)
\* the loop over counts.most_common(): the first fingerprint occurring >= 2
\* times with length >= 3
FirstChorus(items) ==
  IF items = <<>> THEN [found |-> FALSE, fp |-> <<>>]
  ELSE IF Head(items).count >= 2 /\ Len(Head(items).key) >= 3
       THEN [found |-> TRUE, fp |-> Head(items).key]
       ELSE FirstChorus(Tail(items))

\* FallbackLabel by position alone
FallbackLabelByPosition(chorus_found, i) ==
  IF i < 2 THEN "verse" ELSE "bridge"

\* the label the last loop of _label_sections leaves on segment i (0-based)
\* that had label "section"
FallbackLabel(chorus_found, i) ==
  IF (~chorus_found) \/ i < 2 THEN "verse" ELSE "bridge"

\* Segments with every segment ending where it starts
SegmentsEndAtStart(bs, features, b) ==
  [k \in 1..(Len(b) - 1) |->
     [start   |-> bs[b[k] + 1][1].timestamp,
      end     |-> bs[b[k] + 1][1].timestamp,
      dom_seq |-> [j \in 1..(b[k + 1] - b[k]) |-> features[b[k] + j].dominant_chord]]]

\* segments of _label_sections: boundaries b (0-based) cut the bins
Segments(bs, features, b) ==
  [k \in 1..(Len(b) - 1) |->
     [start   |-> bs[b[k] + 1][1].timestamp,
      end     |-> LET last == bs[b[k + 1]] IN last[Len(last)].timestamp,
      dom_seq |-> [j \in 1..(b[k + 1] - b[k]) |-> features[b[k] + j].dominant_chord]]]

\* SongStructureAnalyzer._label_sections
_label_sections(bs, features, b) ==
  LET segments == Segments(bs, features, b)
      fps == [k \in 1..Len(segments) |-> collapse(segments[k].dom_seq, "None")]
      chorus == FirstChorus(most_common(Counter(fps)))
  IN  [k \in 1..Len(segments) |->
         [start |-> segments[k].start, end |-> segments[k].end,
          dom_seq |-> segments[k].dom_seq,
          label |-> IF chorus.found /\ fps[k] = chorus.fp THEN "chorus"
                    ELSE FallbackLabel(chorus.found, k - 1)]]

Features(bs) == [i \in 1..Len(bs) |-> _features_for_bin(bs[i])] \o <<>>

RECURSIVE BinLoopDropsClosedBin(_, _, _, _, _)
\* BinLoop forgetting bins.append(cur) when a bin closes
BinLoopDropsClosedBin(entries, start, closed, cur, cur_start) ==
  IF entries = <<>> THEN (IF cur # <<>> THEN Append(closed, cur) ELSE closed)
  ELSE LET e == Head(entries) IN
       IF e.timestamp < cur_start + bin_seconds
       THEN BinLoopDropsClosedBin(Tail(entries), start, closed, Append(cur, e), cur_start)
       ELSE BinLoopDropsClosedBin(Tail(entries), start, closed, <<e>>,
                    start + ((e.timestamp - start) \div bin_seconds) * bin_seconds)

RECURSIVE BinLoopClosedInterval(_, _, _, _, _)
\* BinLoop with the test e["timestamp"] <= cur_start + bs
BinLoopClosedInterval(entries, start, closed, cur, cur_start) ==
  IF entries = <<>> THEN (IF cur # <<>> THEN Append(closed, cur) ELSE closed)
  ELSE LET e == Head(entries) IN
       IF e.timestamp <= cur_start + bin_seconds
       THEN BinLoopClosedInterval(Tail(entries), start, closed, Append(cur, e), cur_start)
       ELSE BinLoopClosedInterval(Tail(entries), start, Append(closed, cur), <<e>>,
                    start + ((e.timestamp - start) \div bin_seconds) * bin_seconds)

RECURSIVE BinLoop(_, _, _, _, _)
\* the loop of _bin_entries over the remaining entries: closed bins, the open
\* bin cur and its start cur_start
BinLoop(entries, start, closed, cur, cur_start) ==
  IF entries = <<>> THEN (IF cur # <<>> THEN Append(closed, cur) ELSE closed)
  ELSE LET e == Head(entries) IN
       IF e.timestamp < cur_start + bin_seconds
       THEN BinLoop(Tail(entries), start, closed, Append(cur, e), cur_start)
       ELSE BinLoop(Tail(entries), start, Append(closed, cur), <<e>>,
                    start + ((e.timestamp - start) \div bin_seconds) * bin_seconds)

\* SongStructureAnalyzer._bin_entries, entries non-empty
_bin_entries(entries) ==
  BinLoop(entries, entries[1].timestamp, <<>>, <<>>, entries[1].timestamp)

\* entries added to the cache before analyze_structure is called on it
MaxAnalyzed == 3

\* SongStructureAnalyzer.analyze_structure(lookback_seconds)
AnalyzeStructure(lookback) ==
  /\ data' = _prune(data, now)
  /\ UNCHANGED added
  /\ LET r == SinceResult(data', lookback, now) IN
       /\ result' = [op |-> "analyze_structure", kind |-> r.kind, val |-> r.val,
                     arg |-> lookback, at |-> now]
       /\ IF r.val = <<>>
          THEN bins' = <<>> /\ boundaries' = <<>> /\ labeled' = <<>>
          ELSE /\ bins' = _bin_entries(r.val)
               /\ boundaries' = _boundaries(Features(bins'))
               /\ labeled' = _label_sections(bins', Features(bins'), boundaries')

\* what a bin can hold: the <<chord, bpm>> of its entries, in order
SimpleBins == {<<<<"C", 0>>>>, <<<<"G", 0>>>>}
RichBins == {<<<<"none", 0>>>>, <<<<"C", 120>>>>, <<<<"C", 0>>, <<"G", 0>>>>}
\* bins that may come from RichBins (the leading ones)
MaxRichBins == 2

\* the cache entries of bin number i (0-based) holding content: the bin grid
\* starts at StartTime, entry j lies j-1 ticks into its bin
BinEntries(content, i) ==
  [j \in 1..Len(content) |->
     [chord |-> content[j][1], frequency |-> 0, bpm |-> content[j][2],
      timestamp |-> StartTime + i * bin_seconds + (j - 1)]]

\* one more bin of cache entries reaches the analyzer
AppendBin(content) ==
  /\ Len(bins) < MaxBins
  /\ content \in RichBins => Len(bins) < MaxRichBins
  /\ bins' = Append(bins, BinEntries(content, Len(bins)))
  /\ boundaries' = <<>>
  /\ labeled' = <<>>

\* analyze_structure from the bins on: features, boundaries, labels
AnalyzeBins ==
  /\ bins # <<>>
  /\ labeled = <<>>
  /\ boundaries' = _boundaries(Features(bins))
  /\ labeled' = _label_sections(bins, Features(bins), boundaries')
  /\ UNCHANGED bins

\* the dominant chords of the bins of one segment handed to _label_sections
SegmentCatalog ==
  {<<"C", "G", "Am">>, <<"F", "G">>, <<"C", "C", "G", "Am">>, <<"G", "Am", "C">>,
   <<"C", "none", "C">>, <<"none">>}

\* one more segment reaches _label_sections: its bins, one entry each, and the
\* boundary closing it
AppendSegment(doms) ==
  /\ Len(boundaries) - 1 < MaxSegments
  /\ bins' = bins \o [j \in 1..Len(doms) |->
                        BinEntries(<<<<doms[j], 0>>>>, Len(bins) + j - 1)]
  /\ boundaries' = Append(boundaries, Len(bins'))
  /\ labeled' = <<>>

\* _label_sections on the bins, their features and the boundaries
LabelSections ==
  /\ bins # <<>>
  /\ labeled = <<>>
  /\ labeled' = _label_sections(bins, Features(bins), boundaries)
  /\ UNCHANGED <<bins, boundaries>>

(***************************************************************************)
(* Chord templates and _get_match of the two chord detectors               *)
(***************************************************************************)
\* pitch classes with energy in a chroma vector
MaxPitches == 2

note_names == <<"C", "C#", "D", "D#", "E", "F", "F#", "G", "G#", "A", "A#", "B">>
\* f"{root}m" for the 12 roots
minor_names ==
  <<"Cm", "C#m", "Dm", "D#m", "Em", "Fm", "F#m", "Gm", "G#m", "Am", "A#m", "Bm">>

\* triad(root_idx, intervals) of _build_chord_templates before the division by
\* the norm: 1.0 at the pitch classes (root_idx + i) % 12; component p + 1 of
\* the tuple is pitch class p
triad(root_idx, intervals) ==
  [p \in 1..12 |-> IF \E i \in intervals : (root_idx + i) % 12 = p - 1 THEN 1 ELSE 0] \o <<>>

RECURSIVE BuildLoop(_, _, _)
\* the loop over enumerate(note_names) of _build_chord_templates, from root i on
BuildLoop(i, use_maj, use_min) ==
  IF i = 12 THEN [T |-> <<>>, names |-> <<>>]
  ELSE LET rest == BuildLoop(i + 1, use_maj, use_min) IN
       [T |-> (IF use_maj THEN <<triad(i, {0, 4, 7})>> ELSE <<>>)
              \o (IF use_min THEN <<triad(i, {0, 3, 7})>> ELSE <<>>) \o rest.T,
        names |-> (IF use_maj THEN <<note_names[i + 1]>> ELSE <<>>)
                  \o (IF use_min THEN <<minor_names[i + 1]>> ELSE <<>>) \o rest.names]

\* ChordDetector._build_chord_templates (music_analysis/input_detection)
_build_chord_templates(chord_type) ==
  LET maj == chord_type \in {"all", "maj", "major"}
      min == chord_type \in {"all", "min", "minor"}
      use_maj == maj \/ ~(maj \/ min)
      use_min == min \/ ~(maj \/ min)
  IN  BuildLoop(0, use_maj, use_min)

\* ChordDetector._get_major_templates (chord_detector_utils), rows before the
\* division by their norms
_get_major_templates ==
  [T |-> <<
    <<1, 0, 0, 0, 1, 0, 0, 1, 0, 0, 0, 1>>,  \* C
    <<1, 1, 0, 0, 0, 1, 0, 0, 1, 0, 0, 0>>,  \* C#
    <<0, 1, 1, 0, 0, 0, 1, 0, 0, 1, 0, 0>>,  \* D
    <<0, 0, 1, 1, 0, 0, 0, 1, 0, 0, 1, 0>>,  \* D#
    <<0, 0, 0, 1, 1, 0, 0, 0, 1, 0, 0, 1>>,  \* E
    <<1, 0, 0, 0, 1, 1, 0, 0, 0, 1, 0, 0>>,  \* F
    <<0, 1, 0, 0, 0, 1, 1, 0, 0, 0, 1, 0>>,  \* F#
    <<0, 0, 1, 0, 0, 0, 1, 1, 0, 0, 0, 1>>,  \* G
    <<1, 0, 0, 1, 0, 0, 0, 1, 1, 0, 0, 0>>,  \* G#
    <<0, 1, 0, 0, 1, 0, 0, 0, 1, 1, 0, 0>>,  \* A
    <<0, 0, 1, 0, 0, 1, 0, 0, 0, 1, 1, 0>>,  \* A#
    <<0, 0, 0, 1, 0, 0, 1, 0, 0, 0, 1, 1>>   \* B
    >>,
   names |-> note_names]

\* ChordDetector._get_minor_templates (chord_detector_utils)
_get_minor_templates ==
  [T |-> <<
    <<1, 0, 0, 1, 0, 0, 0, 1, 0, 0, 1, 0>>,  \* Cm
    <<0, 1, 0, 0, 1, 0, 0, 0, 1, 0, 0, 1>>,  \* C#m
    <<1, 0, 1, 0, 0, 1, 0, 0, 0, 1, 0, 0>>,  \* Dm
    <<0, 1, 0, 1, 0, 0, 1, 0, 0, 0, 1, 0>>,  \* D#m
    <<0, 0, 1, 0, 1, 0, 0, 1, 0, 0, 0, 1>>,  \* Em
    <<1, 0, 0, 1, 0, 1, 0, 0, 1, 0, 0, 0>>,  \* Fm
    <<0, 1, 0, 0, 1, 0, 1, 0, 0, 1, 0, 0>>,  \* F#m
    <<0, 0, 1, 0, 0, 1, 0, 1, 0, 0, 1, 0>>,  \* Gm
    <<0, 0, 0, 1, 0, 0, 1, 0, 1, 0, 0, 1>>,  \* G#m
    <<1, 0, 0, 0, 1, 0, 0, 1, 0, 1, 0, 0>>,  \* Am
    <<0, 1, 0, 0, 0, 1, 0, 0, 1, 0, 1, 0>>,  \* A#m
    <<0, 0, 1, 0, 0, 0, 1, 0, 0, 1, 0, 1>>   \* Bm
    >>,
   names |-> minor_names]

\* ChordDetector._get_chord_templates (chord_detector_utils)
_get_chord_templates(chord_type) ==
  IF chord_type = "major" THEN _get_major_templates
  ELSE IF chord_type = "minor" THEN _get_minor_templates
  ELSE [T |-> _get_major_templates.T \o _get_minor_templates.T,
        names |-> _get_major_templates.names \o _get_minor_templates.names]

\* the dot product of two 12-vectors and the squared norm of one
Dot12(u, v) ==
  u[1] * v[1] + u[2] * v[2] + u[3] * v[3] + u[4] * v[4] + u[5] * v[5] + u[6] * v[6]
  + u[7] * v[7] + u[8] * v[8] + u[9] * v[9] + u[10] * v[10] + u[11] * v[11] + u[12] * v[12]
Norm2(v) == Dot12(v, v)

\* sims[i] > sims[j] for sims = templates @ chroma_vector, the rows divided by
\* their norms: d[i]/sqrt(n[i]) > d[j]/sqrt(n[j]) with d >= 0 and n > 0
SimGreater(d, n, i, j) == d[i] * d[i] * n[j] > d[j] * d[j] * n[i]

\* np.argmax(sims): the first index (1-based) of the greatest similarity
ArgMaxSim(T, chroma_vector) ==
  LET d == [i \in 1..Len(T) |-> Dot12(T[i], chroma_vector)] \o <<>>
      n == [i \in 1..Len(T) |-> Norm2(T[i])] \o <<>>
  IN  CHOOSE i \in 1..Len(T) :
        /\ \A j \in 1..Len(T) : ~SimGreater(d, n, j, i)
        /\ \A j \in 1..(i - 1) : SimGreater(d, n, i, j)

\* ChordDetector._get_match (the same in both detectors); a positive scaling of
\* chroma_vector (_normalize_chroma) does not change the argmax
_get_match(templates, chroma_vector, chords) == chords[ArgMaxSim(templates, chroma_vector)]

\* the two chord detectors of the repository and their chord_type arguments
Detectors == {"chord_detector", "chord_detector_utils"}
ChordTypes == {"all", "major", "minor"}

\* self.templates, self.chord_names as __init__ of either detector builds
\* them, for every chord_type
Templates ==
  [chord_detector |->
     [all |-> _build_chord_templates("all"),
      major |-> _build_chord_templates("major"),
      minor |-> _build_chord_templates("minor")],
   chord_detector_utils |->
     [all |-> _get_chord_templates("all"),
      major |-> _get_chord_templates("major"),
      minor |-> _get_chord_templates("minor")]]

\* chroma vectors with energy 1 in at most MaxPitches pitch classes
ChromaVectors ==
  {[p \in 1..12 |-> IF p \in S THEN 1 ELSE 0] \o <<>> :
     S \in {S \in SUBSET (1..12) : Cardinality(S) <= MaxPitches}}

\* _get_match(self.templates, mean_chroma, self.chord_names) in _recognize_chord
GetMatch(detector, chord_type, chroma_vector) ==
  LET t == Templates[detector][chord_type] IN
  /\ call' = [op |-> "_get_match", x |-> chroma_vector,
              detector |-> detector, chord_type |-> chord_type]
  /\ chord' = _get_match(t.T, chroma_vector, t.names)
  /\ UNCHANGED <<ret, err, ticks, reports>>

(***************************************************************************)
(* RhythmDetector._tempo_from_autocorr for any sr, hop_length and bpm range *)
(***************************************************************************)
\* the constructor arguments of RhythmDetector that _tempo_from_autocorr
\* reads: the scaled ones of this model, the same with bpm_max = 100, and the
\* defaults of the code
RhythmParams ==
  {[sr |-> sr, hop_length |-> hop_length, bpm_min |-> bpm_min, bpm_max |-> bpm_max],
   [sr |-> sr, hop_length |-> hop_length, bpm_min |-> bpm_min, bpm_max |-> 100],
   [sr |-> 44100, hop_length |-> 512, bpm_min |-> 60, bpm_max |-> 200]}

\* ceil(a / b) for positive integers
CeilDiv(a, b) == (a + b - 1) \div b

\* _tempo_from_autocorr(env) of the detector self; fps is the fraction
\* self.sr / self.hop_length and the estimate 60 * fps / best_lag the fraction
\* <<numerator, denominator>>
tempo_from_autocorr(self, env) ==
  IF Len(env) < 4 \/ \A i \in 1..Len(env) : env[i] = 0 THEN NoEstimate
  ELSE LET ac == Autocorr(RemoveDC(env) \o <<>>) \o <<>>
           lag_min == Max((60 * self.sr) \div (self.bpm_max * self.hop_length), 1)
           lag_max == Min(CeilDiv(60 * self.sr, self.bpm_min * self.hop_length), Len(ac) - 1)
       IN  IF ac[1] <= 0 THEN NoEstimate
           ELSE IF lag_max <= lag_min THEN NoEstimate
           ELSE Estimate(<<60 * self.sr, self.hop_length * ArgMax(ac, lag_min, lag_max)>>)

\* an onset envelope of 51 frames with a beat every 25 frames
BeatEvery25 == [i \in 1..51 |-> IF i % 25 = 1 THEN 1 ELSE 0] \o <<>>

\* a call of _tempo_from_autocorr(env) on the detector constructed with the
\* arguments in call
TempoCall(env) ==
  /\ call.op = "RhythmDetector"
  /\ onset_env' = env
  /\ bpm' = tempo_from_autocorr(call, env)
  /\ UNCHANGED <<rhythm_audio_buf, _last_update_t, _bpm_hist, raw_estimates>>

(***************************************************************************)
(* Key templates and ChordDetector.detect_key                              *)
(***************************************************************************)
\* the pitch classes set to 1.0 by _major_key_template and _minor_key_template
MajorScale == {0, 2, 4, 5, 7, 9, 11}
NaturalMinorScale == {0, 2, 3, 5, 7, 8, 10}
HarmonicMinorScale == {0, 2, 3, 5, 7, 8, 11}

\* the 12-vector that is 1 on the pitch classes of scale; its division by the
\* norm, the same for every key template, is left out
ScaleVector(scale) == [p \in 1..12 |-> IF (p - 1) \in scale THEN 1 ELSE 0] \o <<>>

_major_key_template == ScaleVector(MajorScale)

\* a minor template that is no rotation of the major one (harmonic minor)
MinorKeyTemplateHarmonic == ScaleVector(HarmonicMinorScale)

_minor_key_template == ScaleVector(NaturalMinorScale)

\* np.roll(v, k): component j moves to (j + k) % 12
_rotate(v, k) == [p \in 1..12 |-> v[((p - 1 - k) % 12) + 1]] \o <<>>

\* f"{root} major" and f"{root} minor" for the 12 roots
major_key_names ==
  <<"C major", "C# major", "D major", "D# major", "E major", "F major",
    "F# major", "G major", "G# major", "A major", "A# major", "B major">>
minor_key_names ==
  <<"C minor", "C# minor", "D minor", "D# minor", "E minor", "F minor",
    "F# minor", "G minor", "G# minor", "A minor", "A# minor", "B minor">>

\* ChordDetector._build_key_templates: 12 major rows, then 12 minor rows
_build_key_templates ==
  [T |-> ([i \in 1..12 |-> _rotate(_major_key_template, i - 1)] \o <<>>)
         \o ([i \in 1..12 |-> _rotate(_minor_key_template, i - 1)] \o <<>>),
   names |-> major_key_names \o minor_key_names]

RECURSIVE ArgMaxInt(_, _)
\* np.argmax of the integers xs from index i on: the first index of the greatest
ArgMaxInt(xs, i) ==
  IF i >= Len(xs) THEN i
  ELSE LET rest == ArgMaxInt(xs, i + 1) IN IF xs[i] >= xs[rest] THEN i ELSE rest

\* ChordDetector.detect_key(key_energy); scores and conf are in units of
\* 1 / (norm of a template * norm of key_energy), a positive factor
detect_key(key_energy) ==
  IF \A p \in 1..12 : key_energy[p] = 0 THEN [name |-> "unknown", conf |-> 0]
  ELSE LET kt == _build_key_templates
           scores == [i \in 1..Len(kt.T) |-> Dot12(kt.T[i], key_energy)] \o <<>>
           best == ArgMaxInt(scores, 1)
           s_sorted == SortedAsc(scores)
       IN  [name |-> kt.names[best],
            conf |-> IF Len(s_sorted) >= 2
                     THEN s_sorted[Len(s_sorted)] - s_sorted[Len(s_sorted) - 1]
                     ELSE 0]

\* the energies of a pitch class and the pitch classes with non-zero energy
KeyLevels == {-1, 1, 2}
MaxKeyPitches == 2
KeyEnergies ==
  UNION {{[p \in 1..12 |-> IF p \in S THEN f[p] ELSE 0] \o <<>> : f \in [S -> KeyLevels]} :
           S \in {S \in SUBSET (1..12) : Cardinality(S) <= MaxKeyPitches}}

\* self.detect_key(key_energy) on the energy vector call.x
DetectKey ==
  /\ call.op = "key_energy"
  /\ call' = [op |-> "detect_key", x |-> call.x]
  /\ ret' = detect_key(call.x)
  /\ UNCHANGED <<chord, err, ticks, reports>>

(***************************************************************************)
(* Specifications                                                          *)
(***************************************************************************)
(***************************************************************************)
(* AudioStream and MusicAnalyzer.analyze_song_structure_live               *)
(***************************************************************************)
\* listen_seconds and lookback_seconds of analyze_song_structure_live, in ticks
listen_seconds == 2
lookback_seconds == 2
\* blocks the capture callback delivers in one run
MaxProduced == 4

\* what get_block returns on a timeout
NoBlock == [id |-> 0, x |-> <<>>]
\* queue.Queue() is built without a maxsize: 0, "the queue size is infinite"
maxsize == 0
\* queue.Queue.full(): put blocks while it holds
Full(q) == maxsize > 0 /\ Len(q) >= maxsize
\* the sample blocks sounddevice delivers (blocksize samples each)
CaptureBlocks == {<<0>>, <<1>>}

InitLive ==
  /\ queue = <<>>
  /\ pc = "idle"
  /\ block = NoBlock
  /\ start_time = 0
  /\ produced = 0
  /\ dequeued = <<>>
  /\ processed = <<>>
  /\ faulted = {}

\* AudioStream._callback, run by the capture thread while the stream is open
Callback(x, status) ==
  /\ pc \in {"get", "check", "process", "push", "tempo", "cache"}
  /\ produced' = produced + 1
  /\ faulted' = IF status THEN faulted \cup {produced'} ELSE faulted
  /\ IF ~status
     THEN ~Full(queue) /\ queue' = Append(queue, [id |-> produced', x |-> x])
     ELSE UNCHANGED queue
  /\ UNCHANGED <<pc, block, start_time, dequeued, processed>>

\* analyze_song_structure_live up to the with statement
LiveStart ==
  /\ pc = "idle"
  /\ start_time' = now
  /\ pc' = "get"
  /\ UNCHANGED <<queue, block, produced, dequeued, processed, faulted>>

\* AudioStream.get_block(timeout), called by the generator blocks()
GetBlock ==
  /\ pc = "get"
  /\ IF queue # <<>>
     THEN /\ block' = Head(queue)
          /\ queue' = Tail(queue)
          /\ dequeued' = Append(dequeued, Head(queue).id)
     ELSE /\ block' = NoBlock
          /\ UNCHANGED <<queue, dequeued>>
  /\ pc' = "check"
  /\ UNCHANGED <<start_time, produced, processed, faulted>>

\* the head of the loop body: the deadline test, then the None test
LiveCheck ==
  /\ pc = "check"
  /\ pc' = IF now - start_time >= listen_seconds THEN "done"
           ELSE IF block = NoBlock THEN "get"
           ELSE "process"
  /\ UNCHANGED <<queue, block, start_time, produced, dequeued, processed, faulted>>

\* chord = self.chord_detector.process_block(block)
LiveChord ==
  /\ pc = "process"
  /\ ProcessBlock(block.x)
  /\ pc' = "push"
  /\ UNCHANGED <<queue, block, start_time, produced, dequeued, processed, faulted>>

\* self.rhythm_detector.push_audio(block)
LivePush ==
  /\ pc = "push"
  /\ PushAudio(block.x)
  /\ pc' = "tempo"
  /\ UNCHANGED <<queue, block, start_time, produced, dequeued, processed, faulted>>

\* bpm = self.rhythm_detector.update_bpm()
LiveTempo ==
  /\ pc = "tempo"
  /\ UpdateBpm
  /\ pc' = "cache"
  /\ UNCHANGED <<queue, block, start_time, produced, dequeued, processed, faulted>>

\* Cacheable letting "silence" through
CacheableWithSilence(current_chord) == current_chord # "None" /\ current_chord # ""

\* if current_chord and current_chord != "silence"
Cacheable(current_chord) ==
  current_chord # "None" /\ current_chord # "" /\ current_chord # "silence"

\* the cache step that ends the loop body
LiveCache ==
  /\ pc = "cache"
  /\ LET current_chord == IF ret # "None" THEN ret ELSE last_reported
         current_bpm == IF bpm.ok /\ bpm.bpm # 0 THEN bpm.bpm ELSE 0
     IN  IF Cacheable(current_chord)
         THEN Add(current_chord, 0, current_bpm)
         ELSE UNCHANGED cacheVars
  /\ processed' = Append(processed, block.id)
  /\ pc' = "get"
  /\ UNCHANGED <<queue, block, start_time, produced, dequeued, faulted>>

\* return self.analyze_song_structure(lookback_seconds, bin_seconds)
LiveAnalyze ==
  /\ pc = "done"
  /\ AnalyzeStructure(lookback_seconds)
  /\ pc' = "returned"
  /\ UNCHANGED <<queue, block, start_time, produced, dequeued, processed, faulted>>

(***************************************************************************)
(* RhythmDetector.listen_bpm: its own queue q and capture callback         *)
(***************************************************************************)
\* max_seconds of listen_bpm, in ticks
max_seconds == 2
\* blocks the callback of listen_bpm delivers in one run
MaxListened == 3

\* listen_bpm up to the with statement
ListenStart ==
  /\ pc = "idle"
  /\ start_time' = now
  /\ pc' = "while"
  /\ UNCHANGED <<queue, block, produced, dequeued, processed, faulted>>

\* the callback of listen_bpm: a fault status is ignored, the block is queued
ListenCallback(x, status) ==
  /\ pc \in {"while", "q_get", "push_audio", "update_bpm"}
  /\ produced' = produced + 1
  /\ faulted' = IF status THEN faulted \cup {produced'} ELSE faulted
  /\ ~Full(queue)
  /\ queue' = Append(queue, [id |-> produced', x |-> x])
  /\ UNCHANGED <<pc, block, start_time, dequeued, processed>>

\* while (time.time() - start_time <= max_seconds)
ListenWhile ==
  /\ pc = "while"
  /\ pc' = IF now - start_time <= max_seconds THEN "q_get" ELSE "exit"
  /\ UNCHANGED <<queue, block, start_time, produced, dequeued, processed, faulted>>

\* x = q.get(): blocks until the queue holds a block
ListenGet ==
  /\ pc = "q_get"
  /\ queue # <<>>
  /\ block' = Head(queue)
  /\ queue' = Tail(queue)
  /\ dequeued' = Append(dequeued, Head(queue).id)
  /\ pc' = "push_audio"
  /\ UNCHANGED <<start_time, produced, processed, faulted>>

\* self.push_audio(x)
ListenPush ==
  /\ pc = "push_audio"
  /\ PushAudio(block.x)
  /\ pc' = "update_bpm"
  /\ UNCHANGED <<queue, block, start_time, produced, dequeued, processed, faulted>>

\* bpm = self.update_bpm(), and the printing that follows
ListenTempo ==
  /\ pc = "update_bpm"
  /\ UpdateBpm
  /\ processed' = Append(processed, block.id)
  /\ pc' = "while"
  /\ UNCHANGED <<queue, block, start_time, produced, dequeued, faulted>>

(***************************************************************************)
(* SoundCache shared by two threads: since() on one, add() on the other.   *)
(* The cache takes no lock, so the threads interleave between the deque    *)
(* operations of _prune, add and the list comprehension of since.  A deque *)
(* iterator raises RuntimeError when the deque changed since it was made.  *)
(***************************************************************************)
\* add() calls of the writer thread in one run
MaxThreadAdds == 2

IdleReader ==
  [pc |-> "idle", t |-> 0, seconds |-> 0, state |-> 0, index |-> 0, counter |-> 0,
   out |-> <<>>, fault |-> "None"]
IdleWriter == [pc |-> "idle", t |-> 0]

InitThreads ==
  /\ reader = IdleReader
  /\ writer = IdleWriter
  /\ version = 0

\* since(seconds): now = time.time()
SinceBegin(seconds) ==
  /\ reader.pc \in {"idle", "returned"}
  /\ reader' = [IdleReader EXCEPT !.pc = "prune", !.t = now, !.seconds = seconds]
  /\ UNCHANGED <<data, added, result, writer, version>>

\* _prune on the reader: the while test
SincePruneTest ==
  /\ reader.pc = "prune"
  /\ reader' = [reader EXCEPT !.pc =
                  IF data # <<>> /\ Head(data).timestamp < reader.t - window_seconds
                  THEN "popleft" ELSE "compare"]
  /\ UNCHANGED <<data, added, result, writer, version>>

\* _prune on the reader: self.data.popleft()
SincePopleft ==
  /\ reader.pc = "popleft"
  /\ IF data = <<>>
     THEN /\ reader' = [reader EXCEPT !.pc = "raised", !.fault = "IndexError"]
          /\ UNCHANGED <<data, version>>
     ELSE /\ data' = Tail(data)
          /\ version' = version + 1
          /\ reader' = [reader EXCEPT !.pc = "prune"]
  /\ UNCHANGED <<added, result, writer>>

\* if seconds >= self.window_seconds: return None; else iter(self.data)
SinceCompare ==
  /\ reader.pc = "compare"
  /\ IF reader.seconds >= window_seconds
     THEN /\ reader' = [reader EXCEPT !.pc = "returned"]
          /\ result' = [op |-> "since", kind |-> "none", val |-> <<>>,
                        arg |-> reader.seconds, at |-> reader.t]
     ELSE /\ reader' = [reader EXCEPT !.pc = "iterate", !.state = version,
                                      !.index = 0, !.counter = Len(data)]
          /\ UNCHANGED result
  /\ UNCHANGED <<data, added, writer, version>>

\* one step of [e for e in self.data if e.timestamp >= cutoff]
SinceNext ==
  /\ reader.pc = "iterate"
  /\ IF version # reader.state
     THEN /\ reader' = [reader EXCEPT !.pc = "raised", !.fault = "RuntimeError"]
          /\ UNCHANGED result
     ELSE IF reader.counter = 0
     THEN /\ reader' = [reader EXCEPT !.pc = "returned"]
          /\ result' = [op |-> "since", kind |-> "list", val |-> reader.out,
                        arg |-> reader.seconds, at |-> reader.t]
     ELSE LET e == data[reader.index + 1] IN
          /\ reader' = [reader EXCEPT !.index = @ + 1, !.counter = @ - 1,
                          !.out = IF e.timestamp >= reader.t - reader.seconds
                                  THEN Append(@, e) ELSE @]
          /\ UNCHANGED result
  /\ UNCHANGED <<data, added, writer, version>>

\* add(chord, frequency, bpm): now = time.time(); self.data.append(Entry(...))
AddAppend(c, f, b) ==
  /\ writer.pc = "idle"
  /\ LET e == [chord |-> c, frequency |-> f, bpm |-> b, timestamp |-> now] IN
       /\ data' = Append(data, e)
       /\ added' = Append(added, e)
  /\ version' = version + 1
  /\ writer' = [pc |-> "prune", t |-> now]
  /\ UNCHANGED <<result, reader>>

\* _prune on the writer: the while test
AddPruneTest ==
  /\ writer.pc = "prune"
  /\ writer' = IF data # <<>> /\ Head(data).timestamp < writer.t - window_seconds
                THEN [writer EXCEPT !.pc = "popleft"] ELSE IdleWriter
  /\ UNCHANGED <<data, added, result, reader, version>>

\* _prune on the writer: self.data.popleft()
AddPopleft ==
  /\ writer.pc = "popleft"
  /\ data # <<>>
  /\ data' = Tail(data)
  /\ version' = version + 1
  /\ writer' = [writer EXCEPT !.pc = "prune"]
  /\ UNCHANGED <<added, result, reader>>

Init ==
  /\ InitChord /\ InitRhythm /\ InitObs /\ InitCache /\ InitStruct /\ InitLive
  /\ InitThreads
  /\ now = StartTime

\* the detectors fed blocks directly
NextDetect ==
  \/ \E x \in DetectBlocks :
       /\ update_count < every_n_updates * MaxTicks
       /\ ProcessBlock(x)
       /\ UNCHANGED <<rhythmVars, cacheVars, now, structVars, liveVars, threadVars>>
  \/ Reset /\ UNCHANGED <<rhythmVars, cacheVars, now, structVars, liveVars, threadVars>>

SpecDetect == Init /\ [][NextDetect]_vars

\* the rolling buffers of both detectors
NextBuffers ==
  \/ \E x \in Blocks :
       /\ update_count < MaxPushes
       /\ ProcessBlock(x)
       /\ UNCHANGED <<rhythmVars, cacheVars, now, structVars, liveVars, threadVars>>
  \/ \E x \in Blocks : PushAudio(x)
       /\ UNCHANGED <<chordVars, cacheVars, now, structVars, liveVars, threadVars>>

SpecBuffers == Init /\ [][NextBuffers]_vars

\* the cache under its operations and the passing of time
NextCache ==
  \/ CacheOp /\ UNCHANGED <<chordVars, rhythmVars, obsVars, now, structVars, liveVars, threadVars>>
  \/ Tick /\ UNCHANGED <<chordVars, rhythmVars, obsVars, cacheVars, structVars, liveVars, threadVars>>

SpecCache == Init /\ [][NextCache]_vars

\* the analyzer on bin sequences
NextStructure ==
  \/ \E content \in SimpleBins \cup RichBins : AppendBin(content)
       /\ UNCHANGED <<chordVars, rhythmVars, obsVars, cacheVars, now, liveVars, threadVars>>
  \/ AnalyzeBins /\ UNCHANGED <<chordVars, rhythmVars, obsVars, cacheVars, now, liveVars, threadVars>>

SpecStructure == Init /\ [][NextStructure]_vars

\* the live loop: the capture thread, the consumer and the clock
NextLive ==
  \/ \E x \in CaptureBlocks, status \in BOOLEAN :
       /\ produced < MaxProduced
       /\ Callback(x, status)
       /\ UNCHANGED <<chordVars, rhythmVars, obsVars, cacheVars, now, structVars, threadVars>>
  \/ LiveStart /\ UNCHANGED <<chordVars, rhythmVars, obsVars, cacheVars, now, structVars, threadVars>>
  \/ GetBlock /\ UNCHANGED <<chordVars, rhythmVars, obsVars, cacheVars, now, structVars, threadVars>>
  \/ LiveCheck /\ UNCHANGED <<chordVars, rhythmVars, obsVars, cacheVars, now, structVars, threadVars>>
  \/ LiveChord /\ UNCHANGED <<rhythmVars, cacheVars, now, structVars, threadVars>>
  \/ LivePush /\ UNCHANGED <<chordVars, cacheVars, now, structVars, threadVars>>
  \/ LiveTempo /\ UNCHANGED <<chordVars, obsVars, cacheVars, now, structVars, threadVars>>
  \/ LiveCache /\ UNCHANGED <<chordVars, rhythmVars, obsVars, now, structVars, threadVars>>
  \/ LiveAnalyze /\ UNCHANGED <<chordVars, rhythmVars, obsVars, now, threadVars>>
  \/ Tick /\ UNCHANGED <<chordVars, rhythmVars, obsVars, cacheVars, structVars, liveVars, threadVars>>

SpecLive == Init /\ [][NextLive]_vars

\* listen_bpm: the capture thread, the consumer and the clock
NextListen ==
  \/ \E x \in CaptureBlocks, status \in BOOLEAN :
       /\ produced < MaxListened
       /\ ListenCallback(x, status)
       /\ UNCHANGED <<chordVars, rhythmVars, obsVars, cacheVars, now, structVars, threadVars>>
  \/ ListenStart /\ UNCHANGED <<chordVars, rhythmVars, obsVars, cacheVars, now, structVars, threadVars>>
  \/ ListenWhile /\ UNCHANGED <<chordVars, rhythmVars, obsVars, cacheVars, now, structVars, threadVars>>
  \/ ListenGet /\ UNCHANGED <<chordVars, rhythmVars, obsVars, cacheVars, now, structVars, threadVars>>
  \/ ListenPush /\ UNCHANGED <<chordVars, cacheVars, now, structVars, threadVars>>
  \/ ListenTempo /\ UNCHANGED <<chordVars, obsVars, cacheVars, now, structVars, threadVars>>
  \/ Tick /\ UNCHANGED <<chordVars, rhythmVars, obsVars, cacheVars, structVars, liveVars, threadVars>>

SpecListen == Init /\ [][NextListen]_vars

\* the steps of the thread running listen_bpm, and the passing of time
ListenLoopStep ==
  \/ ListenStart /\ UNCHANGED <<chordVars, rhythmVars, obsVars, cacheVars, now, structVars, threadVars>>
  \/ ListenWhile /\ UNCHANGED <<chordVars, rhythmVars, obsVars, cacheVars, now, structVars, threadVars>>
  \/ ListenGet /\ UNCHANGED <<chordVars, rhythmVars, obsVars, cacheVars, now, structVars, threadVars>>
  \/ ListenPush /\ UNCHANGED <<chordVars, cacheVars, now, structVars, threadVars>>
  \/ ListenTempo /\ UNCHANGED <<chordVars, obsVars, cacheVars, now, structVars, threadVars>>
ClockStep ==
  Tick /\ UNCHANGED <<chordVars, rhythmVars, obsVars, cacheVars, structVars, liveVars, threadVars>>

\* listen_bpm with a thread that keeps running and a clock that keeps going;
\* nothing makes the capture callback deliver a block
FairListen == SpecListen /\ WF_vars(ListenLoopStep) /\ WF_vars(ClockStep)

\* one thread in since(), another in add(), and the clock
NextThreads ==
  \/ \E seconds \in {window_seconds - 1, window_seconds} : SinceBegin(seconds)
       /\ UNCHANGED <<chordVars, rhythmVars, obsVars, now, structVars, liveVars>>
  \/ SincePruneTest /\ UNCHANGED <<chordVars, rhythmVars, obsVars, now, structVars, liveVars>>
  \/ SincePopleft /\ UNCHANGED <<chordVars, rhythmVars, obsVars, now, structVars, liveVars>>
  \/ SinceCompare /\ UNCHANGED <<chordVars, rhythmVars, obsVars, now, structVars, liveVars>>
  \/ SinceNext /\ UNCHANGED <<chordVars, rhythmVars, obsVars, now, structVars, liveVars>>
  \/ \E c \in chord_names, f \in Frequencies :
       /\ Len(added) < MaxThreadAdds
       /\ AddAppend(c, f, 0)
       /\ UNCHANGED <<chordVars, rhythmVars, obsVars, now, structVars, liveVars>>
  \/ AddPruneTest /\ UNCHANGED <<chordVars, rhythmVars, obsVars, now, structVars, liveVars>>
  \/ AddPopleft /\ UNCHANGED <<chordVars, rhythmVars, obsVars, now, structVars, liveVars>>
  \/ Tick /\ UNCHANGED <<chordVars, rhythmVars, obsVars, cacheVars, structVars, liveVars, threadVars>>

SpecThreads == Init /\ [][NextThreads]_vars

\* the tempo estimator: direct calls on any envelope, update_bpm and the clock
NextTempo ==
  \/ \E env \in Envelopes : TempoFromAutocorr(env)
       /\ UNCHANGED <<chordVars, obsVars, cacheVars, now, structVars, liveVars, threadVars>>
  \/ UpdateBpm
       /\ UNCHANGED <<chordVars, obsVars, cacheVars, now, structVars, liveVars, threadVars>>
  \/ Tick /\ UNCHANGED <<chordVars, rhythmVars, obsVars, cacheVars, structVars, liveVars, threadVars>>

SpecTempo == Init /\ [][NextTempo]_vars

\* update_bpm called again and again while time passes
NextSmooth ==
  \/ UpdateBpmOn(TempoEnvelopes)
       /\ UNCHANGED <<chordVars, obsVars, cacheVars, now, structVars, liveVars, threadVars>>
  \/ /\ now < StartTime + MaxUpdates
     /\ now' = now + 1
     /\ UNCHANGED <<chordVars, rhythmVars, obsVars, cacheVars, structVars, liveVars, threadVars>>

SpecSmooth == Init /\ [][NextSmooth]_vars

\* analyze_structure on a cache being filled while time passes
NextAnalyze ==
  \/ \E c \in chord_names :
       /\ Len(added) < MaxAnalyzed
       /\ Add(c, 0, 0)
       /\ UNCHANGED <<chordVars, rhythmVars, obsVars, now, structVars, liveVars, threadVars>>
  \/ \E lookback \in 0..(window_seconds + 1) : AnalyzeStructure(lookback)
       /\ UNCHANGED <<chordVars, rhythmVars, obsVars, now, liveVars, threadVars>>
  \/ Tick /\ UNCHANGED <<chordVars, rhythmVars, obsVars, cacheVars, structVars, liveVars, threadVars>>

SpecAnalyze == Init /\ [][NextAnalyze]_vars

\* _get_match on any chroma vector; the detector and its chord_type are fixed
\* at construction
NextMatch ==
  \E detector \in Detectors, chord_type \in ChordTypes, chroma_vector \in ChromaVectors :
    /\ call.op = "_get_match" => detector = call.detector /\ chord_type = call.chord_type
    /\ GetMatch(detector, chord_type, chroma_vector)
    /\ UNCHANGED <<chordVars, rhythmVars, cacheVars, now, structVars, liveVars, threadVars>>

SpecMatch == Init /\ [][NextMatch]_vars

\* detect_key applied to an energy vector
InitKey ==
  /\ InitChord /\ InitRhythm /\ InitCache /\ InitStruct /\ InitLive /\ InitThreads
  /\ now = StartTime
  /\ \E key_energy \in KeyEnergies : call = [op |-> "key_energy", x |-> key_energy]
  /\ chord = "None"
  /\ ret = "None"
  /\ err = "none"
  /\ ticks = <<>>
  /\ reports = <<>>

NextKey ==
  DetectKey /\ UNCHANGED <<chordVars, rhythmVars, cacheVars, now, structVars, liveVars, threadVars>>

SpecKey == InitKey /\ [][NextKey]_vars

\* _tempo_from_autocorr on detectors constructed with any of RhythmParams
InitRange ==
  /\ InitChord /\ InitRhythm /\ InitCache /\ InitStruct /\ InitLive /\ InitThreads
  /\ now = StartTime
  /\ \E self \in RhythmParams :
       call = [op |-> "RhythmDetector", x |-> <<>>, sr |-> self.sr,
               hop_length |-> self.hop_length, bpm_min |-> self.bpm_min,
               bpm_max |-> self.bpm_max]
  /\ chord = "None"
  /\ ret = "None"
  /\ err = "none"
  /\ ticks = <<>>
  /\ reports = <<>>

NextRange ==
  \E env \in Envelopes \cup {BeatEvery25} :
    /\ TempoCall(env)
    /\ UNCHANGED <<chordVars, obsVars, cacheVars, now, structVars, liveVars, threadVars>>

SpecRange == InitRange /\ [][NextRange]_vars

\* _label_sections on segments given by their boundaries
InitLabel ==
  /\ InitChord /\ InitRhythm /\ InitObs /\ InitCache /\ InitLive /\ InitThreads
  /\ now = StartTime
  /\ bins = <<>>
  /\ boundaries = <<0>>
  /\ labeled = <<>>

NextLabel ==
  \/ \E doms \in SegmentCatalog : AppendSegment(doms)
       /\ UNCHANGED <<chordVars, rhythmVars, obsVars, cacheVars, now, liveVars, threadVars>>
  \/ LabelSections /\ UNCHANGED <<chordVars, rhythmVars, obsVars, cacheVars, now, liveVars, threadVars>>

SpecLabel == InitLabel /\ [][NextLabel]_vars

(***************************************************************************)
(* Claims                                                                  *)
(***************************************************************************)
AllRecognise(ts, L) == \A i \in 1..Len(ts) : ts[i].chord = L

\* C1 as stated: from a state where L is not the last reported label, S
\* consecutive ticks recognising L report L exactly once, on the S-th tick.
C1_DebounceFromAnyState ==
  \A L \in Labels :
    Len(ticks) >= smoothing =>
      LET w == LastK(ticks, smoothing) IN
        (AllRecognise(w, L) /\ w[1].reported # L) =>
          /\ w[smoothing].ret = L
          /\ \A i \in 1..(smoothing - 1) : w[i].ret = "None"

\* C1 amended: from a state where L is neither the last reported label nor the
\* current candidate, S consecutive ticks recognising L report L exactly once,
\* on the S-th tick; a tick recognising the last reported label reports
\* nothing; a label is reported only on a tick ending S consecutive ticks that
\* recognised it, and two successive reports never carry the same label (so L
\* is reported again only after a different label was recognised S times in a
\* row and reported).
C1_Debounce ==
  /\ \A L \in Labels :
       Len(ticks) >= smoothing =>
         LET w == LastK(ticks, smoothing) IN
           (AllRecognise(w, L) /\ w[1].reported # L /\ w[1].candidate # L) =>
             /\ w[smoothing].ret = L
             /\ \A i \in 1..(smoothing - 1) : w[i].ret = "None"
  /\ \A i \in 1..Len(ticks) :
       /\ ticks[i].chord = ticks[i].reported => ticks[i].ret = "None"
       /\ ticks[i].ret \in {"None", ticks[i].chord}
  /\ (ticks # <<>> /\ ticks[Len(ticks)].ret # "None") =>
       /\ Len(ticks) >= smoothing
       /\ AllRecognise(LastK(ticks, smoothing), ticks[Len(ticks)].ret)
  /\ Len(reports) = 2 => reports[1] # reports[2]

\* C1 witness: C was reported after G, on the second of two ticks recognising
\* C that began with another candidate
C1_Witness ==
  /\ reports = <<"G", "C">>
  /\ Len(ticks) = smoothing + 1
  /\ ticks[1].chord = "G"
  /\ ticks[2].chord = "C" /\ ticks[2].ret = "None" /\ ticks[2].reported = "G"
  /\ ticks[3].chord = "C" /\ ticks[3].ret = "C"

\* C2: once a cache operation has completed at time result.at, no retained
\* entry is older than result.at - window_seconds, and a returned entry or list
\* holds only entries inside that window.
C2_WindowInvariant ==
  /\ \A i \in 1..Len(data) : data[i].timestamp >= result.at - window_seconds
  /\ result.kind = "list" =>
       \A i \in 1..Len(result.val) :
         result.val[i].timestamp >= result.at - window_seconds
  /\ result.kind = "entry" => result.val.timestamp >= result.at - window_seconds

\* C2 witness: a query returned entries after older ones had been pruned
C2_Witness ==
  /\ result.kind = "list"
  /\ result.val # <<>>
  /\ Len(data) < Len(added)
  /\ added[1].timestamp < result.at - window_seconds

\* C3: since(seconds) returns None exactly when seconds >= window_seconds, and
\* a list otherwise.
C3_SinceUnsupported ==
  result.op = "since" =>
    /\ result.arg >= window_seconds => result.kind = "none"
    /\ result.arg < window_seconds => result.kind = "list"

\* C3 witness: since(window_seconds) on a non-empty cache returned None
C3_Witness ==
  /\ result.op = "since"
  /\ result.arg = window_seconds
  /\ result.kind = "none"
  /\ data # <<>>

\* C6 as stated: a block whose peak is below silence_thresh, processed on a
\* detection tick, is recognised as "silence".
C6_QuietBlockIsSilence ==
  (call.op = "process_block" /\ chord # "None" /\ Peak(call.x) < silence_thresh)
    => chord = "silence"

\* C6 amended: on a detection tick the label is "silence" whenever the peak of
\* the rolling buffer after the push is below silence_thresh, which a quiet
\* block guarantees only when it is at least buf_len long.
C6_QuietBufferIsSilence ==
  (call.op = "process_block" /\ chord # "None") =>
    /\ Peak(audio_buf) < silence_thresh => chord = "silence"
    /\ (Peak(call.x) < silence_thresh /\ Len(call.x) >= buf_len) => chord = "silence"

\* C6 witness: silence recognised on a one-sample quiet block after a chord
\* had been reported
C6_Witness ==
  /\ call.op = "process_block"
  /\ call.x = <<0>>
  /\ chord = "silence"
  /\ reports # <<>>
  /\ reports[Len(reports)] \in chord_names

\* C8: a detector call with an empty block raises nothing and leaves both
\* rolling buffers as they were.
C8_EmptyPushIsNoOp ==
  [][(call'.op \in {"process_block", "push_audio"} /\ call'.x = <<>>) =>
       (err' = "none" /\ audio_buf' = audio_buf /\ rhythm_audio_buf' = rhythm_audio_buf)]_vars

\* what a push of x into buf must leave: the last N samples of x, or the old
\* samples from position n on followed by x
ExpectedPush(buf, x) ==
  IF Len(x) >= Len(buf)
  THEN SubSeq(x, Len(x) - Len(buf) + 1, Len(x))
  ELSE SubSeq(buf, Len(x) + 1, Len(buf)) \o x

\* C9: a push of n >= 1 samples leaves the last N samples of the input if
\* n >= N, else the old contents from position n on followed by the input; the
\* buffer keeps its length N, in both detectors.
C9_RollingPush ==
  [][/\ (call'.op = "process_block" /\ Len(call'.x) >= 1) =>
          /\ err' = "none"
          /\ audio_buf' = ExpectedPush(audio_buf, call'.x)
          /\ Len(audio_buf') = buf_len
     /\ (call'.op = "push_audio" /\ Len(call'.x) >= 1) =>
          /\ err' = "none"
          /\ rhythm_audio_buf' = ExpectedPush(rhythm_audio_buf, call'.x)
          /\ Len(rhythm_audio_buf') = window_len]_vars

\* C9 witness: a one-sample push into the rhythm buffer moved an earlier loud
\* sample to the head
C9_Witness ==
  /\ call.op = "push_audio"
  /\ call.x = <<0>>
  /\ rhythm_audio_buf[1] = 1
  /\ rhythm_audio_buf[window_len] = 0
  /\ update_count = MaxPushes
  /\ audio_buf[1] = 1

\* bins a..b (1-based) hold only chord X
OnlyChord(bs, a, b, X) ==
  \A i \in a..b : \A j \in 1..Len(bs[i]) : bs[i][j].chord = X

\* every bin has the bpm_mean and change_rate of the first
EqualTempoAndRate(bs) ==
  \A i \in 1..Len(bs) :
    /\ _features_for_bin(bs[i]).bpm_mean = _features_for_bin(bs[1]).bpm_mean
    /\ _features_for_bin(bs[i]).change_rate = _features_for_bin(bs[1]).change_rate

\* bins 0..k-1 hold only X and bins k..n-1 only Y, X # Y
SingleChange(bs, k, X, Y) ==
  /\ k >= 1 /\ Len(bs) - k >= 1
  /\ X # Y
  /\ OnlyChord(bs, 1, k, X)
  /\ OnlyChord(bs, k + 1, Len(bs), Y)
  /\ EqualTempoAndRate(bs)

BinChords == {"C", "G", "none"}

\* C4: a bin sequence with one chord change, from X in bins 0..k-1 to Y in
\* bins k..n-1, and equal bpm_mean and change_rate in every bin, is analysed
\* into the boundaries [0, k, n] and exactly two segments.
C4_SingleChangeSingleBoundary ==
  labeled # <<>> =>
    \A k \in 1..(Len(bins) - 1) : \A X \in BinChords : \A Y \in BinChords :
      SingleChange(bins, k, X, Y) =>
        /\ boundaries = <<0, k, Len(bins)>>
        /\ Len(labeled) = 2
        /\ labeled[1].dom_seq = [i \in 1..k |-> X]
        /\ labeled[2].dom_seq = [i \in 1..(Len(bins) - k) |-> Y]

\* C4 witness: five bins of C then five of G, analysed
C4_Witness ==
  /\ Len(bins) = 10
  /\ SingleChange(bins, 5, "C", "G")
  /\ boundaries = <<0, 5, 10>>
  /\ Len(labeled) = 2

\* the fingerprint of labelled segment k, its occurrences, and the fingerprints
\* that may be the chorus: in >= 2 segments, of length >= 3
FingerprintOf(k) == collapse(labeled[k].dom_seq, "None")
Occurrences(fp) == Cardinality({k \in 1..Len(labeled) : FingerprintOf(k) = fp})
Qualifying ==
  {FingerprintOf(k) : k \in {j \in 1..Len(labeled) :
      Occurrences(FingerprintOf(j)) >= 2 /\ Len(FingerprintOf(j)) >= 3}}
ChorusSegments == {k \in 1..Len(labeled) : labeled[k].label = "chorus"}

\* C5: the chorus fingerprint is a fingerprint of highest occurrence count among
\* those in >= 2 segments with length >= 3, none if there is none, and a
\* segment is labeled "chorus" iff its fingerprint is the chorus fingerprint.
C5_ChorusVoting ==
  labeled # <<>> =>
    IF Qualifying = {} THEN ChorusSegments = {}
    ELSE \E fp \in Qualifying :
           /\ \A other \in Qualifying : Occurrences(other) <= Occurrences(fp)
           /\ ChorusSegments = {k \in 1..Len(labeled) : FingerprintOf(k) = fp}

\* C5 witness: [C,G,Am] in two segments and [F,G] in one; only the former are
\* "chorus"
C5_Witness ==
  /\ Len(labeled) = 3
  /\ FingerprintOf(1) = <<"C", "G", "Am">>
  /\ FingerprintOf(2) = <<"F", "G">>
  /\ FingerprintOf(3) = <<"C", "G", "Am">>
  /\ labeled[1].label = "chorus"
  /\ labeled[2].label # "chorus"
  /\ labeled[3].label = "chorus"

C10_DequeuedBlocksProcessed ==
  pc \in {"done", "returned"} =>
    \A i \in 1..Len(dequeued) : \E j \in 1..Len(processed) : processed[j] = dequeued[i]

(***************************************************************************)
(* C11: the capture-to-consumer hand-off queue is bounded: under any       *)
(* interleaving of the capture callback and the consumer the number of     *)
(* queued blocks never exceeds a fixed capacity.  Stated for capacities    *)
(* below the number of blocks the callback delivers in a run.              *)
(***************************************************************************)
C11_QueueBounded ==
  \E capacity \in 1..(MaxProduced - 1) : Len(queue) <= capacity

(***************************************************************************)
(* C12: in every capture callback a block delivered with a fault status is *)
(* dropped and never reaches the consumer, and every block delivered       *)
(* without a fault status is enqueued, in delivery order.                  *)
(***************************************************************************)
QueuedIds == [i \in 1..Len(queue) |-> queue[i].id]

C12_FaultedBlocksDropped ==
  dequeued \o QueuedIds =
    SelectSeq([i \in 1..produced |-> i], LAMBDA id : id \notin faulted)

(***************************************************************************)
(* C13: snapshot safety of SoundCache.since with one writer and one        *)
(* concurrent reader: under every interleaving of a since() call with the  *)
(* steps of add() and _prune on the same cache, since() completes without  *)
(* fault, and the list it returns is time-ordered and made of entries that *)
(* were added to the cache.                                                *)
(***************************************************************************)
C13_SinceSnapshotSafe ==
  /\ reader.fault = "None"
  /\ (result.op = "since" /\ result.kind = "list") =>
       /\ \A i \in 1..Len(result.val) : \E k \in 1..Len(added) : added[k] = result.val[i]
       /\ \A i, j \in 1..Len(result.val) :
            i < j => result.val[i].timestamp <= result.val[j].timestamp

(***************************************************************************)
(* C14: top_freqencies(n), n >= 0, returns at most n entries, sorted by    *)
(* non-increasing frequency, the highest-frequency entries of the window,  *)
(* entries of equal frequency in their insertion order.                    *)
(***************************************************************************)
WithFrequency(seq, f) == SelectSeq(seq, LAMBDA e : e.frequency = f)
IsPrefix(a, b) == Len(a) <= Len(b) /\ a = SubSeq(b, 1, Len(a))

C14_TopFrequencies ==
  result.op = "top_freqencies" =>
    LET val == result.val IN
    /\ Len(val) = Min(result.arg, Len(data))
    /\ \A i \in 1..(Len(val) - 1) : val[i].frequency >= val[i + 1].frequency
    /\ \A f \in Frequencies :
         /\ IsPrefix(WithFrequency(val, f), WithFrequency(data, f))
         /\ WithFrequency(val, f) # WithFrequency(data, f) =>
              \A i \in 1..Len(val) : val[i].frequency >= f

\* two distinct entries of equal frequency, top 1 asked: the older one comes
C14_Witness ==
  /\ result.op = "top_freqencies" /\ result.arg = 1
  /\ Len(data) = 2
  /\ data[1].frequency = data[2].frequency /\ data[1] # data[2]
  /\ result.val = <<data[1]>>

(***************************************************************************)
(* C15: last_n(n) returns its entries most recent first: the first element *)
(* is the most recently added in-window entry and timestamps are           *)
(* non-increasing along the result.                                        *)
(***************************************************************************)
C15_LastNMostRecentFirst ==
  (result.op = "last_n" /\ result.val # <<>>) =>
    /\ result.val[1] = data[Len(data)]
    /\ \A i \in 1..(Len(result.val) - 1) :
         result.val[i].timestamp >= result.val[i + 1].timestamp

(***************************************************************************)
(* C16: last_n(n), for every n >= 0 including n = 0, returns exactly       *)
(* min(n, number of in-window entries) entries, the most recently added.   *)
(***************************************************************************)
C16_LastNCount ==
  result.op = "last_n" =>
    LET k == Min(result.arg, Len(data)) IN
    /\ Len(result.val) = k
    /\ \A i \in 1..Len(result.val) :
         \E j \in (Len(data) - k + 1)..Len(data) : result.val[i] = data[j]

(***************************************************************************)
(* C17: analyze_structure on a cache with no entry inside the lookback     *)
(* window (in particular an empty cache) returns an empty list.            *)
(***************************************************************************)
C17_NothingToAnalyze ==
  (/\ result.op = "analyze_structure"
   /\ \A i \in 1..Len(data) : data[i].timestamp < result.at - result.arg)
  => labeled = <<>>

\* the cache held entries, all older than the lookback, and since() returned []
C17_Witness ==
  /\ result.op = "analyze_structure" /\ result.kind = "list"
  /\ data # <<>>
  /\ \A i \in 1..Len(data) : data[i].timestamp < result.at - result.arg
  /\ labeled = <<>>

(***************************************************************************)
(* C18: update_bpm is rate limited: a call made less than update_s after   *)
(* the last active update returns None and leaves the BPM history, the     *)
(* last-update time and the audio buffer unchanged; an active update is at *)
(* least update_s after the one before it.                                 *)
(***************************************************************************)
C18_RateLimited ==
  [][(pc = "update_bpm" /\ pc' = "while") =>
       /\ now - _last_update_t < update_s =>
            /\ bpm' = NoEstimate
            /\ UNCHANGED <<_bpm_hist, _last_update_t, rhythm_audio_buf>>
       /\ _bpm_hist' # _bpm_hist => now - _last_update_t >= update_s]_vars

\* an estimate is in the history and the last call, in the same tick as the
\* update that made it, returned None
C18_Witness ==
  /\ pc = "while"
  /\ bpm = NoEstimate
  /\ _bpm_hist # <<>>
  /\ onset_env = <<0, 1, 0, 0, 1>>
  /\ _last_update_t = now

(***************************************************************************)
(* C19: _tempo_from_autocorr returns None when the onset envelope has      *)
(* fewer than 4 frames or is all zero, when the zero-lag autocorrelation   *)
(* is <= 0, or when the lag range clipped to the autocorrelation length    *)
(* holds no lag above lag_min; update_bpm then returns None too and the    *)
(* BPM history is unchanged.                                               *)
(***************************************************************************)
Degenerate(env) ==
  \/ Len(env) < 4
  \/ \A i \in 1..Len(env) : env[i] = 0
  \/ Dot(RemoveDC(env), 0, 1) <= 0
  \/ Min((60 * frame_rate + bpm_min - 1) \div bpm_min, Len(env) - 1)
       <= Max((60 * frame_rate) \div bpm_max, 1)

C19_DegenerateTempo ==
  [][/\ Degenerate(onset_env') => bpm' = NoEstimate
     /\ (_last_update_t' # _last_update_t /\ Degenerate(onset_env')) =>
          _bpm_hist' = _bpm_hist]_vars

\* update_bpm met a four-frame envelope after an estimate had been recorded
C19_Witness ==
  /\ onset_env = <<0, 1, 0, 1>>
  /\ bpm = NoEstimate
  /\ _bpm_hist # <<>>
  /\ _last_update_t = now

(***************************************************************************)
(* C20: the bins partition the queried entries: for a non-empty,           *)
(* time-ordered entry list the concatenation of the bins, in order, is the *)
(* list itself, and every bin is non-empty.                                *)
(***************************************************************************)
RECURSIVE Flatten(_)
Flatten(bs) == IF bs = <<>> THEN <<>> ELSE Head(bs) \o Flatten(Tail(bs))

C20_BinsPartition ==
  (result.op = "analyze_structure" /\ result.val # <<>>) =>
    /\ Flatten(bins) = result.val
    /\ \A i \in 1..Len(bins) : bins[i] # <<>>

\* three entries in two bins
C20_Witness ==
  /\ result.op = "analyze_structure"
  /\ Len(result.val) = 3
  /\ Len(bins) = 2 /\ Len(bins[1]) = 2

(***************************************************************************)
(* C21: after any sequence of add and query operations the entries of the  *)
(* cache are in non-decreasing timestamp order, oldest at the head, and    *)
(* pruning from the head has removed exactly the entries older than the    *)
(* cutoff of the last operation.                                           *)
(***************************************************************************)
C21_CacheOrdered ==
  /\ \A i \in 1..(Len(data) - 1) : data[i].timestamp <= data[i + 1].timestamp
  /\ data = SelectSeq(added, LAMBDA e : e.timestamp >= result.at - window_seconds)

\* two entries of different ages were added, and the older one alone was pruned
C21_Witness ==
  /\ Len(added) = 2 /\ added[1].timestamp < added[2].timestamp
  /\ data = <<added[2]>>

C23_ReportRule ==
  [][(update_count' = update_count + 1 /\ update_count' % every_n_updates = 0) =>
       /\ IF chord' = last_candidate
          THEN last_candidate' = last_candidate /\ candidate_count' = candidate_count + 1
          ELSE last_candidate' = chord' /\ candidate_count' = 1
       /\ IF candidate_count' >= smoothing /\ chord' # last_reported
          THEN ret' = chord' /\ last_reported' = chord'
          ELSE ret' = "None" /\ last_reported' = last_reported
    ]_vars

\* a stable label that was already reported is not reported again
C23_Witness ==
  /\ update_count > 0 /\ update_count % every_n_updates = 0
  /\ call.op = "process_block"
  /\ candidate_count > smoothing
  /\ chord = last_reported /\ chord \in chord_names
  /\ ret = "None"

(***************************************************************************)
(* C24: recognition runs exactly on the process_block calls whose 1-based  *)
(* count since construction or reset is a multiple of every_n_updates;     *)
(* every other call returns None and leaves last_candidate,                *)
(* candidate_count and last_reported unchanged.                            *)
(***************************************************************************)
C24_DetectionRate ==
  [][update_count' = update_count + 1 =>
       IF update_count' % every_n_updates = 0
       THEN chord' \in Labels
       ELSE /\ chord' = "None" /\ ret' = "None"
            /\ UNCHANGED <<last_candidate, candidate_count, last_reported>>
    ]_vars

\* a call between two detection ticks, after a label was reported
C24_Witness ==
  /\ call.op = "process_block"
  /\ update_count > every_n_updates /\ update_count % every_n_updates # 0
  /\ last_reported \in chord_names
  /\ chord = "None" /\ ret = "None"

(***************************************************************************)
(* C25: the boundary list of _boundaries is strictly increasing, starts    *)
(* with 0, ends with the bin count, and holds an interior index i exactly  *)
(* when distance[i] >= mean + population standard deviation of all the     *)
(* distances, distance[0] = 0 included.                                    *)
(***************************************************************************)
\* the distances as integers over their common denominator (\o <<>> turns a
\* function over 1..n into the tuple of its values)
ScaledDistances(bs) ==
  LET diffs == Diffs(Features(bs)) \o <<>>
      q == CommonDen(diffs)
  IN  [j \in 1..Len(diffs) |-> diffs[j][1] * (q \div diffs[j][2])] \o <<>>

\* n times the deviation of every distance from the mean
Deviations(D) ==
  LET n == Len(D)
      s == SumInts(D)
  IN  [j \in 1..n |-> n * D[j] - s] \o <<>>

SumSquares(dev) == SumInts([j \in 1..Len(dev) |-> dev[j] * dev[j]] \o <<>>)

\* D[i] - mean >= std, as n*(n*D[i] - s)^2 >= sum over j of (n*D[j] - s)^2
ReachesMeanPlusStd(dev, ss, i) ==
  dev[i] >= 0 /\ Len(dev) * dev[i] * dev[i] >= ss

C25_BoundaryRule ==
  labeled # <<>> =>
    LET dev == Deviations(ScaledDistances(bins))
        ss == SumSquares(dev)
    IN
    /\ boundaries[1] = 0
    /\ boundaries[Len(boundaries)] = Len(bins)
    /\ \A k \in 1..(Len(boundaries) - 1) : boundaries[k] < boundaries[k + 1]
    /\ \A i \in 1..(Len(bins) - 1) :
         (\E k \in 1..Len(boundaries) : boundaries[k] = i) <=> ReachesMeanPlusStd(dev, ss, i + 1)

\* one interior boundary, and a bin with a non-zero distance below the threshold
C25_Witness ==
  /\ labeled # <<>>
  /\ Len(boundaries) = 3
  /\ \E i \in 1..(Len(bins) - 1) :
       /\ ScaledDistances(bins)[i + 1] > 0
       /\ \A k \in 1..Len(boundaries) : boundaries[k] # i

\* C26: the bins of _bin_entries follow the grid anchored at the first entry's
\* timestamp t0: all entries of a bin lie in one cell
\* [t0 + k*bin_seconds, t0 + (k+1)*bin_seconds), k >= 0, and k grows strictly
\* from one bin to the next; the cells are fixed by the entries alone, not by
\* the time of the call
GridCell(e, t0) == (e.timestamp - t0) \div bin_seconds

C26_BinGrid ==
  (result.op = "analyze_structure" /\ result.val # <<>>) =>
    LET t0 == result.val[1].timestamp IN
    /\ \A i \in 1..Len(bins) : \A j \in 1..Len(bins[i]) :
         /\ GridCell(bins[i][j], t0) >= 0
         /\ GridCell(bins[i][j], t0) = GridCell(bins[i][1], t0)
    /\ \A i \in 1..(Len(bins) - 1) :
         GridCell(bins[i][1], t0) < GridCell(bins[i + 1][1], t0)

\* two entries at different instants of the first cell, a third one in the
\* second cell
C26_Witness ==
  /\ result.op = "analyze_structure"
  /\ Len(bins) = 2 /\ Len(bins[1]) = 2
  /\ bins[1][2].timestamp = bins[1][1].timestamp + 1
  /\ GridCell(bins[2][1], bins[1][1].timestamp) = 1

\* C27: the fingerprint of every segment, whatever its dominant-chord sequence
\* (a "none" between two equal chords included), has no "none" element and no
\* two adjacent equal labels, and keeps the remaining labels in their order:
\* it is the sequence without its "none" elements, with each run of equal
\* labels reduced to one
RECURSIVE DropRepeats(_)
DropRepeats(seq) ==
  IF Len(seq) <= 1 THEN seq
  ELSE IF seq[1] = seq[2] THEN DropRepeats(Tail(seq))
       ELSE <<seq[1]>> \o DropRepeats(Tail(seq))

C27_FingerprintCollapse ==
  \A k \in 1..Len(labeled) :
    LET fp == FingerprintOf(k) IN
    /\ \A i \in 1..Len(fp) : fp[i] # "none"
    /\ \A i \in 1..(Len(fp) - 1) : fp[i] # fp[i + 1]
    /\ fp = DropRepeats(SelectSeq(labeled[k].dom_seq, LAMBDA x : x # "none"))

\* root ascending C to B, the major chord of a root before its minor chord
CanonicalOrder ==
  <<"C", "Cm", "C#", "C#m", "D", "Dm", "D#", "D#m", "E", "Em", "F", "Fm",
    "F#", "F#m", "G", "Gm", "G#", "G#m", "A", "Am", "A#", "A#m", "B", "Bm">>
CanonicalRank(name) == CHOOSE i \in 1..Len(CanonicalOrder) : CanonicalOrder[i] = name

\* the templates of greatest similarity with chroma_vector
MaxSimilar(T, chroma_vector) ==
  LET d == [i \in 1..Len(T) |-> Dot12(T[i], chroma_vector)] \o <<>>
      n == [i \in 1..Len(T) |-> Norm2(T[i])] \o <<>>
  IN  {i \in 1..Len(T) : \A j \in 1..Len(T) : ~SimGreater(d, n, j, i)}

\* C28: in every chord detector, the label _get_match returns is, among the
\* templates that share the maximum similarity with the chroma vector, the
\* first in canonical order (root ascending C to B, major before minor)
C28_TieBreakCanonical ==
  call.op = "_get_match" =>
    LET t == Templates[call.detector][call.chord_type]
        best == MaxSimilar(t.T, call.x)
    IN  /\ \E i \in best : t.names[i] = chord
        /\ \A i \in best : CanonicalRank(chord) <= CanonicalRank(t.names[i])

\* the pitch classes (0..11) with a non-zero component
NonZero(v) == {p \in 0..11 : v[p + 1] # 0}

\* v has exactly three non-zero components, all equal, at r, r + third, r + 7
IsTriad(v, r, third) ==
  /\ NonZero(v) = {r, (r + third) % 12, (r + 7) % 12}
  /\ \A p, q \in NonZero(v) : v[p + 1] = v[q + 1]

\* C30: in every template table of the repository, for each of the 12 roots r
\* the major template is the triad r, r+4, r+7 (mod 12) and the minor template
\* the triad r, r+3, r+7 (mod 12): exactly three non-zero, equal components
C30_TemplatesAreTriads ==
  call.op = "_get_match" =>
    LET t == Templates[call.detector][call.chord_type] IN
    \A r \in 0..11 : \A i \in 1..Len(t.T) :
      /\ t.names[i] = note_names[r + 1] => IsTriad(t.T[i], r, 4)
      /\ t.names[i] = minor_names[r + 1] => IsTriad(t.T[i], r, 3)

\* the last n elements of seq
Trailing(seq, n) == SubSeq(seq, Max(1, Len(seq) - n + 1), Len(seq))

\* C29: after any sequence of update_bpm calls the history holds at most
\* smooth_n values, the most recent successful raw estimates in their order
\* (the oldest evicted first), and an active update that yields an estimate
\* returns the median of the history after appending that estimate
C29_SmoothingHistory ==
  /\ Len(_bpm_hist) <= smooth_n
  /\ _bpm_hist = Trailing(raw_estimates, smooth_n)
  /\ bpm.ok => /\ _bpm_hist # <<>>
               /\ _bpm_hist[Len(_bpm_hist)] = _tempo_from_autocorr(onset_env).bpm
               /\ bpm.bpm = Median(_bpm_hist)

\* more than smooth_n estimates, the evicted one differing from the oldest one
\* kept, and a median that differs from the estimate just appended
C29_Witness ==
  /\ Len(raw_estimates) > smooth_n
  /\ raw_estimates[1] # _bpm_hist[1]
  /\ bpm.ok
  /\ bpm.bpm # _bpm_hist[Len(_bpm_hist)]

\* C31: detect_key never returns a minor key: on every non-zero energy vector
\* the label is one of the 12 "<root> major" names and the confidence (top
\* score minus second score) is 0, every natural-minor template being equal to
\* the template of its relative major
IsNonZero(v) == \E p \in 1..12 : v[p] # 0

C31_NeverMinorKey ==
  /\ LET T == _build_key_templates.T IN
       \A i \in 1..12 : T[12 + i] = T[((i - 1 + 3) % 12) + 1]
  /\ (call.op = "detect_key" /\ IsNonZero(call.x)) =>
       /\ \E i \in 1..12 : ret.name = major_key_names[i]
       /\ ret.conf = 0

\* more energy on A than on C, none elsewhere: "C major" is returned
C31_Witness ==
  /\ call.op = "detect_key"
  /\ call.x = <<1, 0, 0, 0, 0, 0, 0, 0, 0, 2, 0, 0>>
  /\ ret = [name |-> "C major", conf |-> 0]

\* C32: every BPM value _tempo_from_autocorr returns lies in the closed range
\* [bpm_min, bpm_max], for every sample rate, hop length and envelope for
\* which an estimate is returned
C32_BpmInRange ==
  (call.op = "RhythmDetector" /\ bpm.ok) =>
    /\ call.bpm_min * bpm.bpm[2] <= bpm.bpm[1]
    /\ bpm.bpm[1] <= call.bpm_max * bpm.bpm[2]

\* every distance between consecutive bins is 0
NoFeatureChange(bs) ==
  LET D == ScaledDistances(bs) IN \A i \in 1..Len(D) : D[i] = 0

\* C33: a bin sequence with no feature change (every consecutive-bin distance
\* 0) has no interior boundary: _boundaries returns [0, bin count] and
\* analyze_structure exactly one segment, for any number of bins >= 1
C33_NoChangeNoBoundary ==
  (labeled # <<>> /\ NoFeatureChange(bins)) =>
    /\ boundaries = <<0, Len(bins)>>
    /\ Len(labeled) = 1

\* C34: the segments analyze_structure returns for time-ordered entries are in
\* temporal order and do not overlap: start <= end in each, the end of a
\* segment is <= the start of the next, the first starts at the first analysed
\* entry's timestamp, the last ends at the last analysed entry's timestamp, and
\* every label is "chorus", "verse" or "bridge"
C34_SegmentsOrdered ==
  labeled # <<>> =>
    LET n == Len(labeled)
        last_bin == bins[Len(bins)]
    IN  /\ \A k \in 1..n : labeled[k].start <= labeled[k].end
        /\ \A k \in 1..(n - 1) : labeled[k].end <= labeled[k + 1].start
        /\ labeled[1].start = bins[1][1].timestamp
        /\ labeled[n].end = last_bin[Len(last_bin)].timestamp
        /\ \A k \in 1..n : labeled[k].label \in {"chorus", "verse", "bridge"}

\* three segments of several bins each: two "chorus", then a "bridge"
C34_Witness ==
  /\ Len(labeled) = 3
  /\ labeled[1].label = "chorus"
  /\ labeled[3].label = "bridge"
  /\ \A k \in 1..3 : labeled[k].start < labeled[k].end

\* C35: analyze_structure(lookback_seconds) with lookback_seconds >= the
\* cache's window_seconds returns the empty list whatever the cache holds:
\* since() answers None ("unsupported"), and the caller gets the output of an
\* empty cache, no error and no distinct value
C35_UnsupportedLookbackEmpty ==
  (result.op = "analyze_structure" /\ result.arg >= window_seconds) =>
    /\ result.kind = "none"
    /\ labeled = <<>>
    /\ bins = <<>> /\ boundaries = <<>>

\* a lookback beyond the window on a cache holding two entries
C35_Witness ==
  /\ result.op = "analyze_structure"
  /\ result.arg > window_seconds
  /\ Len(data) >= 2
  /\ labeled = <<>>

\* C36: a listen-for-N-seconds loop terminates once its deadline has passed,
\* even if the capture path never delivers another block: here listen_bpm,
\* started, leaves its loop after now - start_time exceeds max_seconds
C36_ListenTerminates ==
  (pc # "idle" /\ now - start_time > max_seconds) ~> (pc = "exit")
====
